---- MODULE Spec2Model ----
(***************************************************************************)
(* Model of the nested JSON reader: stack-context DFA, tokenizing pushdown *)
(* automaton, node tree builder, column tree construction, scatter passes  *)
(* and the device string caster.                                           *)
(***************************************************************************)
EXTENDS Integers, Sequences, FiniteSets, TLC

VARIABLES
  input,         \* the JSON text read so far, a sequence of one-character strings
  phase,         \* position of the running specification
  top_of_stack,  \* get_stack_context's output, one stack symbol per input byte
  tokens,        \* get_token_stream's output, a sequence of [tok, idx]
  tree,          \* get_tree_representation's output (node arrays and whether it threw)
  outcome,       \* what the whole parse returned: "none", "table", "error", or
                 \* "undefined" when it read outside an array
  records,       \* the document of the column builder: what field "a" holds per record
  is_enabled_mixed_types_as_string,  \* the reader option of that name
  dcols,         \* make_device_json_column's result: the device column tree
  caller,        \* who calls parse_data: "names" (column names) or "values"
  str_rows,          \* the batch of the string caster: per row its kind and pieces
  pad,           \* how many characters pad the first row of the batch
  size_result,         \* what the size pass of parse_data left: offsets, mask, count
  casted,        \* the string column parse_data returned
  node_run,      \* the nodes of one column id: per node <<row offset, category>>
  reduced,       \* what reduce_by_key made of the run: category and pair, or "none"
  hand_over,     \* the host thread inside one stage and the work queued on the streams
  jcols,         \* make_json_column2's result: the column tree and its buffers
  fetch          \* one launch of the parallel string decoder: the counter and its threads

vars ==
  <<input, phase, top_of_stack, tokens, tree, outcome, records, is_enabled_mixed_types_as_string, dcols,
    caller, str_rows, pad, size_result, casted, node_run, reduced, hand_over, jcols, fetch>>

tokVars == <<input, top_of_stack, tokens, tree, outcome>>

colVars == <<records, is_enabled_mixed_types_as_string, dcols>>

strVars == <<caller, str_rows, pad, size_result, casted>>

redVars == <<node_run, reduced>>

auxVars == <<hand_over, jcols, fetch>>

\* ---------------------------------------------------------------- bounds
\* longest JSON text fed to the tokenizer pipeline
MaxLen == 4

\* most records of a document given to the column builder
MaxRecords == 3

\* most records of a document given to the pruning column builder
MaxPrunedRecords == 2

\* most rows of a batch given to the string caster
MaxStrings == 2

\* most pieces, the padding counted as one, of a batch
MaxPieces == 2

\* the most characters of a document of the node tree builder
MaxText == 12

\* the most nodes of one column id given to the category reduction
MaxRun == 3

\* One representative character per symbol group of the tokenizer:
\* "x" stands for every other character, " " for every whitespace.
Symbols == {"{", "[", "}", "]", "\"", "\\", ",", ":", " ", "x"}

\* ------------------------------------------------------------ helpers
RECURSIVE SeqOfSet(_)
\* the elements of a finite set of integers in increasing order
SeqOfSet(S) ==
  IF S = {} THEN <<>>
  ELSE LET m == CHOOSE x \in S : \A y \in S : x <= y
       IN  <<m>> \o SeqOfSet(S \ {m})

Max(a, b) == IF a >= b THEN a ELSE b

RECURSIVE seq_range(_, _, _)
\* the sequence f[lo], ..., f[hi]
seq_range(f, lo, hi) ==
  IF lo > hi THEN <<>>
  ELSE IF lo = hi THEN <<f[lo]>>
  ELSE LET mid == (lo + hi) \div 2
       IN  seq_range(f, lo, mid) \o seq_range(f, mid + 1, hi)

\* the sequence f[1], ..., f[n]
seq_of(f, n) == seq_range(f, 1, n)

\* ------------------------------------------------ JSON-to-stack-op DFA
DFA_SGID(c) ==
  CASE c = "{"  -> 1
    [] c = "["  -> 2
    [] c = "}"  -> 3
    [] c = "]"  -> 4
    [] c = "\"" -> 5
    [] c = "\\" -> 6
    [] OTHER    -> 7

transition_table ==
  [TT_OOS |-> <<"TT_OOS", "TT_OOS", "TT_OOS", "TT_OOS", "TT_STR", "TT_OOS", "TT_OOS">>,
   TT_STR |-> <<"TT_STR", "TT_STR", "TT_STR", "TT_STR", "TT_OOS", "TT_STR", "TT_STR">>,
   TT_ESC |-> <<"TT_STR", "TT_STR", "TT_STR", "TT_STR", "TT_STR", "TT_STR", "TT_STR">>]

translation_table ==
  [TT_OOS |-> <<"{", "[", "}", "]", "x", "x", "x">>,
   TT_STR |-> <<"x", "x", "x", "x", "x", "x", "x">>,
   TT_ESC |-> <<"x", "x", "x", "x", "x", "x", "x">>]

to_stack_op_start_state == "TT_OOS"

RECURSIVE to_stack_op_run(_, _)
\* the DFA's states before bytes 1..Len(in)+1, given those before 1..Len(acc)
to_stack_op_run(in, acc) ==
  IF Len(acc) = Len(in) + 1 THEN acc
  ELSE to_stack_op_run(in,
         Append(acc, transition_table[acc[Len(acc)]][DFA_SGID(in[Len(acc)])]))

\* state of the DFA before it reads in[i] (i = Len(in)+1: after the last byte)
to_stack_op_states(in) == to_stack_op_run(in, <<to_stack_op_start_state>>)

\* the symbol the DFA emits for every input byte ('x' is the read symbol)
stack_ops(in) ==
  LET st == to_stack_op_states(in)
  IN  seq_of([i \in 1..Len(in) |-> translation_table[st[i]][DFA_SGID(in[i])]], Len(in))

JSONToStackOp(stack_symbol) ==
  IF stack_symbol \in {"{", "["} THEN "PUSH"
  ELSE IF stack_symbol \in {"}", "]"} THEN "POP"
  ELSE "READ"

RECURSIVE stack_run(_, _)
\* the logical stacks before ops 1..Len(ops)+1, given those before 1..Len(acc)
stack_run(ops, acc) ==
  IF Len(acc) = Len(ops) + 1 THEN acc
  ELSE LET s      == acc[Len(acc)]
           symbol == ops[Len(acc)]
           op     == JSONToStackOp(symbol)
       IN  stack_run(ops,
             Append(acc, IF op = "PUSH" THEN Append(s, symbol)
                         ELSE IF op = "POP" /\ Len(s) > 0 THEN SubSeq(s, 1, Len(s) - 1)
                         ELSE s))

\* the logical stack before the operation of byte i is applied
stack_before(ops) == stack_run(ops, <<<<>>>>)

sparse_stack_op_to_top_of_stack(ops) ==
  LET sb == stack_before(ops)
  IN  seq_of([i \in 1..Len(ops) |-> IF Len(sb[i]) = 0 THEN "_" ELSE sb[i][Len(sb[i])]],
             Len(ops))

get_stack_context(in) == sparse_stack_op_to_top_of_stack(stack_ops(in))

\* --------------------------------------------- tokenizer pushdown automaton
tos_sg_to_pda_sgid(c) ==
  CASE c = "{"  -> 0
    [] c = "["  -> 1
    [] c = "}"  -> 2
    [] c = "]"  -> 3
    [] c = "\"" -> 4
    [] c = "\\" -> 5
    [] c = ","  -> 6
    [] c = ":"  -> 7
    [] c = " "  -> 8
    [] OTHER    -> 9

PdaSymbolToSymbolGroupId(symbol, stack_symbol) ==
  LET stack_idx == IF stack_symbol = "_" THEN 0 ELSE IF stack_symbol = "[" THEN 1 ELSE 2
  IN  stack_idx * 10 + tos_sg_to_pda_sgid(symbol)

pda_start_state == "PD_BOV"

get_transition_table ==
  [
   PD_BOV |-> <<"PD_BOA", "PD_BOA", "PD_ERR", "PD_ERR", "PD_STR", "PD_ERR", "PD_ERR", "PD_ERR", "PD_BOV", "PD_LON",
               "PD_BOA", "PD_BOA", "PD_ERR", "PD_ERR", "PD_STR", "PD_ERR", "PD_ERR", "PD_ERR", "PD_BOV", "PD_LON",
               "PD_BOA", "PD_BOA", "PD_ERR", "PD_ERR", "PD_STR", "PD_ERR", "PD_ERR", "PD_ERR", "PD_BOV", "PD_LON">>,
   PD_BOA |-> <<"PD_ERR", "PD_ERR", "PD_ERR", "PD_ERR", "PD_ERR", "PD_ERR", "PD_ERR", "PD_ERR", "PD_ERR", "PD_ERR",
               "PD_BOA", "PD_BOA", "PD_ERR", "PD_PVL", "PD_STR", "PD_ERR", "PD_ERR", "PD_ERR", "PD_BOA", "PD_LON",
               "PD_ERR", "PD_ERR", "PD_PVL", "PD_ERR", "PD_FLN", "PD_ERR", "PD_ERR", "PD_ERR", "PD_BOA", "PD_ERR">>,
   PD_LON |-> <<"PD_ERR", "PD_ERR", "PD_ERR", "PD_ERR", "PD_ERR", "PD_ERR", "PD_ERR", "PD_ERR", "PD_PVL", "PD_LON",
               "PD_ERR", "PD_ERR", "PD_ERR", "PD_PVL", "PD_ERR", "PD_ERR", "PD_BOV", "PD_ERR", "PD_PVL", "PD_LON",
               "PD_ERR", "PD_ERR", "PD_PVL", "PD_ERR", "PD_ERR", "PD_ERR", "PD_BFN", "PD_ERR", "PD_PVL", "PD_LON">>,
   PD_STR |-> <<"PD_STR", "PD_STR", "PD_STR", "PD_STR", "PD_PVL", "PD_SCE", "PD_STR", "PD_STR", "PD_STR", "PD_STR",
               "PD_STR", "PD_STR", "PD_STR", "PD_STR", "PD_PVL", "PD_SCE", "PD_STR", "PD_STR", "PD_STR", "PD_STR",
               "PD_STR", "PD_STR", "PD_STR", "PD_STR", "PD_PVL", "PD_SCE", "PD_STR", "PD_STR", "PD_STR", "PD_STR">>,
   PD_SCE |-> <<"PD_STR", "PD_STR", "PD_STR", "PD_STR", "PD_STR", "PD_STR", "PD_STR", "PD_STR", "PD_STR", "PD_STR",
               "PD_STR", "PD_STR", "PD_STR", "PD_STR", "PD_STR", "PD_STR", "PD_STR", "PD_STR", "PD_STR", "PD_STR",
               "PD_STR", "PD_STR", "PD_STR", "PD_STR", "PD_STR", "PD_STR", "PD_STR", "PD_STR", "PD_STR", "PD_STR">>,
   PD_PVL |-> <<"PD_ERR", "PD_ERR", "PD_ERR", "PD_ERR", "PD_ERR", "PD_ERR", "PD_ERR", "PD_ERR", "PD_PVL", "PD_ERR",
               "PD_ERR", "PD_ERR", "PD_ERR", "PD_PVL", "PD_ERR", "PD_ERR", "PD_BOV", "PD_ERR", "PD_PVL", "PD_ERR",
               "PD_ERR", "PD_ERR", "PD_PVL", "PD_ERR", "PD_ERR", "PD_ERR", "PD_BFN", "PD_ERR", "PD_PVL", "PD_ERR">>,
   PD_BFN |-> <<"PD_ERR", "PD_ERR", "PD_ERR", "PD_ERR", "PD_ERR", "PD_ERR", "PD_ERR", "PD_ERR", "PD_ERR", "PD_ERR",
               "PD_ERR", "PD_ERR", "PD_ERR", "PD_ERR", "PD_ERR", "PD_ERR", "PD_ERR", "PD_ERR", "PD_ERR", "PD_ERR",
               "PD_ERR", "PD_ERR", "PD_ERR", "PD_ERR", "PD_FLN", "PD_ERR", "PD_ERR", "PD_ERR", "PD_BFN", "PD_ERR">>,
   PD_FLN |-> <<"PD_ERR", "PD_ERR", "PD_ERR", "PD_ERR", "PD_ERR", "PD_ERR", "PD_ERR", "PD_ERR", "PD_ERR", "PD_ERR",
               "PD_ERR", "PD_ERR", "PD_ERR", "PD_ERR", "PD_ERR", "PD_ERR", "PD_ERR", "PD_ERR", "PD_ERR", "PD_ERR",
               "PD_FLN", "PD_FLN", "PD_FLN", "PD_FLN", "PD_PFN", "PD_FNE", "PD_FLN", "PD_FLN", "PD_FLN", "PD_FLN">>,
   PD_FNE |-> <<"PD_ERR", "PD_ERR", "PD_ERR", "PD_ERR", "PD_ERR", "PD_ERR", "PD_ERR", "PD_ERR", "PD_ERR", "PD_ERR",
               "PD_ERR", "PD_ERR", "PD_ERR", "PD_ERR", "PD_ERR", "PD_ERR", "PD_ERR", "PD_ERR", "PD_ERR", "PD_ERR",
               "PD_FLN", "PD_FLN", "PD_FLN", "PD_FLN", "PD_FLN", "PD_FLN", "PD_FLN", "PD_FLN", "PD_FLN", "PD_FLN">>,
   PD_PFN |-> <<"PD_ERR", "PD_ERR", "PD_ERR", "PD_ERR", "PD_ERR", "PD_ERR", "PD_ERR", "PD_ERR", "PD_ERR", "PD_ERR",
               "PD_ERR", "PD_ERR", "PD_ERR", "PD_ERR", "PD_ERR", "PD_ERR", "PD_ERR", "PD_ERR", "PD_ERR", "PD_ERR",
               "PD_ERR", "PD_ERR", "PD_ERR", "PD_ERR", "PD_ERR", "PD_ERR", "PD_ERR", "PD_BOV", "PD_PFN", "PD_ERR">>,
   PD_ERR |-> <<"PD_ERR", "PD_ERR", "PD_ERR", "PD_ERR", "PD_ERR", "PD_ERR", "PD_ERR", "PD_ERR", "PD_ERR", "PD_ERR",
               "PD_ERR", "PD_ERR", "PD_ERR", "PD_ERR", "PD_ERR", "PD_ERR", "PD_ERR", "PD_ERR", "PD_ERR", "PD_ERR",
               "PD_ERR", "PD_ERR", "PD_ERR", "PD_ERR", "PD_ERR", "PD_ERR", "PD_ERR", "PD_ERR", "PD_ERR", "PD_ERR">>
  ]

get_translation_table ==
  [
   PD_BOV |-> <<<<"TK_BOS">>, <<"TK_BOL">>, <<"TK_ERR">>, <<"TK_ERR">>, <<"TK_BST">>, <<"TK_ERR">>, <<"TK_ERR">>, <<"TK_ERR">>, <<>>, <<"TK_BOV">>,
               <<"TK_BOS">>, <<"TK_BOL">>, <<"TK_ERR">>, <<"TK_ERR">>, <<"TK_BST">>, <<"TK_ERR">>, <<"TK_ERR">>, <<"TK_ERR">>, <<>>, <<"TK_BOV">>,
               <<"TK_BOS">>, <<"TK_BOL">>, <<"TK_ERR">>, <<"TK_ERR">>, <<"TK_BST">>, <<"TK_ERR">>, <<"TK_ERR">>, <<"TK_ERR">>, <<>>, <<"TK_BOV">>>>,
   PD_BOA |-> <<<<"TK_ERR">>, <<"TK_ERR">>, <<"TK_ERR">>, <<"TK_ERR">>, <<"TK_ERR">>, <<"TK_ERR">>, <<"TK_ERR">>, <<"TK_ERR">>, <<"TK_ERR">>, <<"TK_ERR">>,
               <<"TK_BOS">>, <<"TK_BOL">>, <<"TK_ERR">>, <<"TK_EOL">>, <<"TK_BST">>, <<"TK_ERR">>, <<"TK_ERR">>, <<"TK_ERR">>, <<>>, <<"TK_BOV">>,
               <<"TK_ERR">>, <<"TK_ERR">>, <<"TK_EOS">>, <<"TK_ERR">>, <<"TK_BFN">>, <<"TK_ERR">>, <<"TK_ERR">>, <<"TK_ERR">>, <<>>, <<"TK_ERR">>>>,
   PD_LON |-> <<<<"TK_ERR">>, <<"TK_ERR">>, <<"TK_ERR">>, <<"TK_ERR">>, <<"TK_ERR">>, <<"TK_ERR">>, <<"TK_ERR">>, <<"TK_ERR">>, <<"TK_POV">>, <<>>,
               <<"TK_ERR">>, <<"TK_ERR">>, <<"TK_ERR">>, <<"TK_POV", "TK_EOL">>, <<"TK_ERR">>, <<"TK_ERR">>, <<"TK_POV">>, <<"TK_ERR">>, <<"TK_POV">>, <<>>,
               <<"TK_ERR">>, <<"TK_ERR">>, <<"TK_POV", "TK_EOS">>, <<"TK_ERR">>, <<"TK_ERR">>, <<"TK_ERR">>, <<"TK_POV">>, <<"TK_ERR">>, <<"TK_POV">>, <<>>>>,
   PD_STR |-> <<<<>>, <<>>, <<>>, <<>>, <<"TK_EST">>, <<>>, <<>>, <<>>, <<>>, <<>>,
               <<>>, <<>>, <<>>, <<>>, <<"TK_EST">>, <<>>, <<>>, <<>>, <<>>, <<>>,
               <<>>, <<>>, <<>>, <<>>, <<"TK_EST">>, <<>>, <<>>, <<>>, <<>>, <<>>>>,
   PD_SCE |-> <<<<>>, <<>>, <<>>, <<>>, <<>>, <<>>, <<>>, <<>>, <<>>, <<>>,
               <<>>, <<>>, <<>>, <<>>, <<>>, <<>>, <<>>, <<>>, <<>>, <<>>,
               <<>>, <<>>, <<>>, <<>>, <<>>, <<>>, <<>>, <<>>, <<>>, <<>>>>,
   PD_PVL |-> <<<<"TK_ERR">>, <<"TK_ERR">>, <<"TK_ERR">>, <<"TK_ERR">>, <<"TK_ERR">>, <<"TK_ERR">>, <<"TK_ERR">>, <<"TK_ERR">>, <<>>, <<"TK_ERR">>,
               <<"TK_ERR">>, <<"TK_ERR">>, <<"TK_ERR">>, <<"TK_EOL">>, <<"TK_ERR">>, <<"TK_ERR">>, <<>>, <<"TK_ERR">>, <<>>, <<"TK_ERR">>,
               <<"TK_ERR">>, <<"TK_ERR">>, <<"TK_EOS">>, <<"TK_ERR">>, <<"TK_ERR">>, <<"TK_ERR">>, <<>>, <<"TK_ERR">>, <<>>, <<"TK_ERR">>>>,
   PD_BFN |-> <<<<"TK_ERR">>, <<"TK_ERR">>, <<"TK_ERR">>, <<"TK_ERR">>, <<"TK_ERR">>, <<"TK_ERR">>, <<"TK_ERR">>, <<"TK_ERR">>, <<"TK_ERR">>, <<"TK_ERR">>,
               <<"TK_ERR">>, <<"TK_ERR">>, <<"TK_ERR">>, <<"TK_ERR">>, <<"TK_ERR">>, <<"TK_ERR">>, <<"TK_ERR">>, <<"TK_ERR">>, <<"TK_ERR">>, <<"TK_ERR">>,
               <<"TK_ERR">>, <<"TK_ERR">>, <<"TK_ERR">>, <<"TK_ERR">>, <<"TK_BFN">>, <<"TK_ERR">>, <<"TK_ERR">>, <<"TK_ERR">>, <<>>, <<"TK_ERR">>>>,
   PD_FLN |-> <<<<"TK_ERR">>, <<"TK_ERR">>, <<"TK_ERR">>, <<"TK_ERR">>, <<"TK_ERR">>, <<"TK_ERR">>, <<"TK_ERR">>, <<"TK_ERR">>, <<"TK_ERR">>, <<"TK_ERR">>,
               <<"TK_ERR">>, <<"TK_ERR">>, <<"TK_ERR">>, <<"TK_ERR">>, <<"TK_ERR">>, <<"TK_ERR">>, <<"TK_ERR">>, <<"TK_ERR">>, <<"TK_ERR">>, <<"TK_ERR">>,
               <<>>, <<>>, <<>>, <<>>, <<"TK_EFN">>, <<>>, <<>>, <<>>, <<>>, <<>>>>,
   PD_FNE |-> <<<<"TK_ERR">>, <<"TK_ERR">>, <<"TK_ERR">>, <<"TK_ERR">>, <<"TK_ERR">>, <<"TK_ERR">>, <<"TK_ERR">>, <<"TK_ERR">>, <<"TK_ERR">>, <<"TK_ERR">>,
               <<"TK_ERR">>, <<"TK_ERR">>, <<"TK_ERR">>, <<"TK_ERR">>, <<"TK_ERR">>, <<"TK_ERR">>, <<"TK_ERR">>, <<"TK_ERR">>, <<"TK_ERR">>, <<"TK_ERR">>,
               <<>>, <<>>, <<>>, <<>>, <<>>, <<>>, <<>>, <<>>, <<>>, <<>>>>,
   PD_PFN |-> <<<<"TK_ERR">>, <<"TK_ERR">>, <<"TK_ERR">>, <<"TK_ERR">>, <<"TK_ERR">>, <<"TK_ERR">>, <<"TK_ERR">>, <<"TK_ERR">>, <<"TK_ERR">>, <<"TK_ERR">>,
               <<"TK_ERR">>, <<"TK_ERR">>, <<"TK_ERR">>, <<"TK_ERR">>, <<"TK_ERR">>, <<"TK_ERR">>, <<"TK_ERR">>, <<"TK_ERR">>, <<"TK_ERR">>, <<"TK_ERR">>,
               <<"TK_ERR">>, <<"TK_ERR">>, <<"TK_ERR">>, <<"TK_ERR">>, <<"TK_ERR">>, <<"TK_ERR">>, <<"TK_ERR">>, <<>>, <<>>, <<"TK_ERR">>>>,
   PD_ERR |-> <<<<>>, <<>>, <<>>, <<>>, <<>>, <<>>, <<>>, <<>>, <<>>, <<>>,
               <<>>, <<>>, <<>>, <<>>, <<>>, <<>>, <<>>, <<>>, <<>>, <<>>,
               <<>>, <<>>, <<>>, <<>>, <<>>, <<>>, <<>>, <<>>, <<>>, <<>>>>
  ]

RECURSIVE pda_run(_, _, _)
\* the PDA's states before bytes 1..Len(in)+1, given those before 1..Len(acc)
pda_run(in, tos, acc) ==
  IF Len(acc) = Len(in) + 1 THEN acc
  ELSE pda_run(in, tos,
         Append(acc, get_transition_table[acc[Len(acc)]]
                       [PdaSymbolToSymbolGroupId(in[Len(acc)], tos[Len(acc)]) + 1]))

\* state of the PDA before it reads byte i
pda_states(in, tos) == pda_run(in, tos, <<pda_start_state>>)

RECURSIVE Transduce_error_emits(_, _, _, _)
\* Transduce with a translation table whose Error row emits an error token
Transduce_error_emits(in, tos, st, i) ==
  IF i > Len(in) THEN <<>>
  ELSE LET out == IF st[i] = "PD_ERR" THEN <<"TK_ERR">>
                  ELSE get_translation_table[st[i]]
                         [PdaSymbolToSymbolGroupId(in[i], tos[i]) + 1]
       IN  [k \in 1..Len(out) |-> [tok |-> out[k], idx |-> i - 1]]
             \o Transduce_error_emits(in, tos, st, i + 1)

RECURSIVE Transduce(_, _, _, _)
\* the tokens emitted from byte i on, each with the (0-based) offset of its byte
Transduce(in, tos, st, i) ==
  IF i > Len(in) THEN <<>>
  ELSE LET out == get_translation_table[st[i]][PdaSymbolToSymbolGroupId(in[i], tos[i]) + 1]
       IN  [k \in 1..Len(out) |-> [tok |-> out[k], idx |-> i - 1]]
             \o Transduce(in, tos, st, i + 1)

get_token_stream(in) ==
  LET tos == get_stack_context(in)
  IN  Transduce(in, tos, pda_states(in, tos), 1)

\* ------------------------------------------------------ node tree builder
parent_node_sentinel == -1

\* the enumerators of token_t in declaration order; a token's value is its position
token_t ==
  <<"TK_BOS", "TK_BOL", "TK_ERR", "TK_BST", "TK_EST", "TK_BOV", "TK_POV",
    "TK_EOS", "TK_EOL", "TK_BFN", "TK_EFN">>

token_value(token) == (CHOOSE k \in 1..Len(token_t) : token_t[k] = token) - 1

is_node(token) == token \in {"TK_BOS", "TK_BOL", "TK_BST", "TK_BOV", "TK_BFN", "TK_ERR"}

token_to_node(token) ==
  CASE token = "TK_BOS" -> "NC_STRUCT"
    [] token = "TK_BOL" -> "NC_LIST"
    [] token = "TK_BST" -> "NC_STR"
    [] token = "TK_BOV" -> "NC_VAL"
    [] token = "TK_BFN" -> "NC_FN"
    [] OTHER            -> "NC_ERR"

get_token_index(token, token_index) ==
  IF token \in {"TK_BST", "TK_BFN"} THEN token_index + 1 ELSE token_index

is_begin_of_section(token) == token \in {"TK_BST", "TK_BOV", "TK_BFN"}

end_of_partner(token) ==
  CASE token = "TK_BST" -> "TK_EST"
    [] token = "TK_BOV" -> "TK_POV"
    [] token = "TK_BFN" -> "TK_EFN"
    [] OTHER            -> "TK_ERR"

does_pop(token) == token \in {"TK_EOS", "TK_EOL"}

does_push(token) == token \in {"TK_BOS", "TK_BOL"}

\* the condition under which the token after a begin-of-section token is consumed:
\* the code tests the partner of the NEXT token for being non-zero
consumes_next(toks, i) ==
  (i + 1) <= Len(toks) /\ token_value(end_of_partner(toks[i + 1].tok)) # 0

\* stack_after without the pop of the field name that is left on top
stack_after_keep_field(token, node_id, pstack) ==
  IF token = "TK_BFN" THEN Append(pstack, <<node_id, TRUE>>)
  ELSE IF does_push(token) THEN Append(pstack, <<node_id, FALSE>>)
  ELSE IF does_pop(token) THEN SubSeq(pstack, 1, Len(pstack) - 1)
  ELSE pstack

\* the parent stack after the token's push/pop and the field-name pop
stack_after(token, node_id, pstack) ==
  IF token = "TK_BFN" THEN Append(pstack, <<node_id, TRUE>>)
  ELSE LET s1 == IF does_push(token) THEN Append(pstack, <<node_id, FALSE>>)
                 ELSE IF does_pop(token) THEN SubSeq(pstack, 1, Len(pstack) - 1)
                 ELSE pstack
       IN  IF Len(s1) >= 1 /\ s1[Len(s1)][2] THEN SubSeq(s1, 1, Len(s1) - 1) ELSE s1

RECURSIVE tree_loop(_, _, _, _)
\* one iteration of the token loop per call; nodes holds node id k at position k+1
tree_loop(toks, i, pstack, nodes) ==
  IF i > Len(toks) THEN [nodes |-> nodes, threw |-> FALSE]
  ELSE
    LET token       == toks[i].tok
        range_begin == get_token_index(token, toks[i].idx)
        parent      == IF Len(pstack) > 0 THEN pstack[Len(pstack)][1] ELSE parent_node_sentinel
        merge       == is_begin_of_section(token) /\ consumes_next(toks, i)
        range_end   == IF merge THEN toks[i + 1].idx ELSE range_begin + 1
        next_i      == IF merge THEN i + 2 ELSE i + 1
        node_id     == Len(nodes)
        nodes1      == IF is_node(token)
                       THEN Append(nodes, [category |-> token_to_node(token),
                                           parent   |-> parent,
                                           level    |-> Len(pstack),
                                           range_begin |-> range_begin,
                                           range_end   |-> range_end])
                       ELSE nodes
    IN  IF token # "TK_BFN" /\ ~does_push(token) /\ does_pop(token) /\ Len(pstack) < 1
        THEN [nodes |-> nodes1, threw |-> TRUE]     \* CUDF_EXPECTS: "Invalid JSON input."
        ELSE tree_loop(toks, next_i, stack_after(token, node_id, pstack), nodes1)

get_tree_representation(in) == tree_loop(get_token_stream(in), 1, <<>>, <<>>)

\* ------------------------------------------- column ids of the node tree
\* records_orient_tree_traversal: nodes of the same category, parent column and
\* field name share a column id; ids are dense, in order of first appearance
node_name(in, n) ==
  IF n.category = "NC_FN" /\ n.range_end <= Len(in) /\ n.range_begin < n.range_end
  THEN SubSeq(in, n.range_begin + 1, n.range_end)
  ELSE <<>>

RECURSIVE traversal_loop(_, _, _, _)
traversal_loop(in, nodes, k, acc) ==
  \* acc: [keys |-> sequence of column keys, col_ids |-> sequence per node]
  IF k > Len(nodes) THEN acc
  ELSE LET n   == nodes[k]
           pc  == IF n.parent = parent_node_sentinel THEN -1 ELSE acc.col_ids[n.parent + 1]
           key == <<n.category, pc, node_name(in, n)>>
           hit == {c \in 1..Len(acc.keys) : acc.keys[c] = key}
       IN  IF hit # {}
           THEN traversal_loop(in, nodes, k + 1,
                  [acc EXCEPT !.col_ids = Append(@, (CHOOSE c \in hit : TRUE) - 1)])
           ELSE traversal_loop(in, nodes, k + 1,
                  [keys |-> Append(acc.keys, key), col_ids |-> Append(acc.col_ids, Len(acc.keys))])

records_orient_tree_traversal(in, nodes) ==
  traversal_loop(in, nodes, 1, [keys |-> <<>>, col_ids |-> <<>>]).col_ids

\* ------------------------------------------------ category unification
\* the reduce_by_key operator of gather_column_info
\* unify that keeps the first category where the two differ
unify_keep_first(type_a, type_b) == type_a

unify(type_a, type_b) ==
  LET is_a_leaf == type_a \in {"NC_VAL", "NC_STR"}
      is_b_leaf == type_b \in {"NC_VAL", "NC_STR"}
  IN  IF type_a = type_b THEN type_a
      ELSE IF is_a_leaf
        THEN (IF type_b = "NC_FN" THEN "NC_ERR" ELSE IF is_b_leaf THEN "NC_STR" ELSE type_b)
      ELSE IF is_b_leaf
        THEN (IF type_a = "NC_FN" THEN "NC_ERR" ELSE IF is_a_leaf THEN "NC_STR" ELSE type_a)
      ELSE "NC_ERR"

RECURSIVE reduce_categories(_, _)
\* left-to-right reduction of a non-empty run of categories
reduce_categories(cats, k) ==
  IF k = 1 THEN cats[1] ELSE unify(reduce_categories(cats, k - 1), cats[k])

\* gather_column_info: one entry per column id (column id c at position c+1)
gather_column_info(in, nodes, col_ids) ==
  LET ncols == IF Len(col_ids) = 0 THEN 0
               ELSE 1 + (CHOOSE m \in {col_ids[k] : k \in 1..Len(col_ids)} :
                           \A k \in 1..Len(col_ids) : col_ids[k] <= m)
      members(c) == SeqOfSet({k \in 1..Len(nodes) : col_ids[k] = c})
      first(c)   == nodes[members(c)[1]]
  IN  seq_of([c1 \in 1..ncols |->
        LET c == c1 - 1
            ms == members(c)
        IN  [category    |-> reduce_categories([j \in 1..Len(ms) |-> nodes[ms[j]].category], Len(ms)),
             parent      |-> IF first(c).parent = -1 THEN -1 ELSE col_ids[first(c).parent + 1],
             range_begin |-> first(c).range_begin,
             name        |-> node_name(in, first(c))]], ncols)

\* ------------------------------------- make_json_column2 (json_column.cu)
list_child_name == <<"element">>

to_json_col_type(category) ==
  CASE category = "NC_STRUCT" -> "StructColumn"
    [] category = "NC_LIST"   -> "ListColumn"
    [] category \in {"NC_STR", "NC_VAL"} -> "StringColumn"
    [] OTHER -> "Unknown"

\* column ids ordered by the begin offset of their first node
sort_by_range_begin(ct) ==
  LET n == Len(ct)
      rank(c) == Cardinality({d \in 0..(n - 1) :
                    ct[d + 1].range_begin < ct[c + 1].range_begin
                    \/ (ct[d + 1].range_begin = ct[c + 1].range_begin /\ d < c)})
  IN  seq_of([k \in 1..n |-> CHOOSE c \in 0..(n - 1) : rank(c) = k - 1], n)

\* name -> column id of the children of column p in the device column tree
child_of(st, p, name) == {e \in st.children : e[1] = p /\ e[2] = name}

RECURSIVE json_column_loop(_, _, _, _)
\* the loop over unique_col_ids[1..] that builds the d_json_column tree;
\* st.children holds <<parent, name, child>>, st.order the column_order lists
json_column_loop(ct, ids, i, st) ==
  IF i > Len(ids) \/ st.threw \/ st.ub THEN st
  ELSE
    LET this == ids[i]
        cat  == ct[this + 1].category
    IN
    IF cat \in {"NC_ERR", "NC_FN"} THEN json_column_loop(ct, ids, i + 1, st)
    ELSE
      LET p0 == ct[this + 1].parent IN
      IF p0 = -1
      THEN [st EXCEPT !.ub = TRUE]             \* column_categories[-1] is read
      ELSE IF ct[p0 + 1].category \notin {"NC_FN", "NC_LIST"}
      THEN [st EXCEPT !.threw = TRUE]          \* "Unexpected parent column category"
      ELSE
        LET is_fn  == ct[p0 + 1].category = "NC_FN"
            name   == IF is_fn THEN ct[p0 + 1].name ELSE list_child_name
            parent == IF is_fn THEN ct[p0 + 1].parent ELSE p0
        IN
        IF parent \notin st.columns
        THEN [st EXCEPT !.threw = TRUE]        \* "Parent column not found"
        ELSE
          LET old_e == {m \in st.mapped : m[1] = parent /\ m[2] = name} IN
          IF old_e # {} /\ cat = "NC_VAL"
          THEN json_column_loop(ct, ids, i + 1,
                 [st EXCEPT !.ignore_vals = @ \cup {this}])
          ELSE
            LET old == IF old_e = {} THEN -1 ELSE (CHOOSE m \in old_e : TRUE)[3]
                remap == old # -1 /\ ct[old + 1].category = "NC_VAL"
                st1 == IF remap
                       THEN [st EXCEPT !.ignore_vals = @ \cup {old},
                                       !.mapped      = @ \ old_e,
                                       !.columns     = @ \ {old},
                                       !.children    = @ \ child_of(st, parent, name)]
                       ELSE st
            IN
            IF child_of(st1, parent, name) # {}
            THEN [st1 EXCEPT !.threw = TRUE]   \* "duplicate column name"
            ELSE json_column_loop(ct, ids, i + 1,
                   [st1 EXCEPT !.children = @ \cup {<<parent, name, this>>},
                               !.order    = [@ EXCEPT ![parent] = Append(@, name)],
                               !.type     = [@ EXCEPT ![this] = to_json_col_type(cat)],
                               !.columns  = @ \cup {this},
                               !.mapped   = IF old_e = {} \/ remap
                                            THEN @ \cup {<<parent, name, this>>} ELSE @])

make_json_column2(ct) ==
  LET ids  == sort_by_range_begin(ct)
      n    == Len(ct)
      root == ids[1]
      st0  == [type     |-> [c \in 0..(n - 1) |->
                               IF c = root THEN to_json_col_type(ct[1].category) ELSE "Unknown"],
               children |-> {},
               order    |-> [c \in 0..(n - 1) |-> <<>>],
               columns  |-> {root},
               mapped   |-> {},
               ignore_vals |-> {},
               root     |-> root,
               threw    |-> FALSE,
               ub       |-> FALSE]
  IN  json_column_loop(ct, ids, 2, st0)

RECURSIVE json_column_to_cudf_column2(_, _)
\* TRUE when the conversion of column c returns a column, FALSE when it fails
json_column_to_cudf_column2(st, c) ==
  CASE st.type[c] = "StringColumn" -> TRUE
    [] st.type[c] = "StructColumn" ->
         \A k \in 1..Len(st.order[c]) :
           \E e \in child_of(st, c, st.order[c][k]) : json_column_to_cudf_column2(st, e[3])
    [] st.type[c] = "ListColumn" ->
         \E e \in st.children : e[1] = c /\ json_column_to_cudf_column2(st, e[3])
    [] OTHER -> FALSE      \* "Unsupported column type, yet to be implemented"

\* what parse_nested_json2 returns for the text: a table or an error
parse_nested_json2(in) ==
  LET tr == get_tree_representation(in) IN
  IF tr.threw THEN "error"
  ELSE IF Len(tr.nodes) = 0 THEN "undefined"   \* column_categories[0] of no column is read
  ELSE
    LET col_ids == records_orient_tree_traversal(in, tr.nodes)
        ct      == gather_column_info(in, tr.nodes, col_ids)
        st      == make_json_column2(ct)
        kids    == {e \in st.children : e[1] = st.root}
    IN  IF st.ub THEN "undefined"
        ELSE IF st.threw THEN "error"
        ELSE IF ~(st.type[st.root] = "ListColumn" /\ Cardinality(kids) = 1
                  /\ \A e \in kids : st.type[e[3]] = "StructColumn")
          THEN "error"   \* "only supports an array of (nested) objects"
        ELSE LET s == (CHOOSE e \in kids : TRUE)[3]
             IN  IF \A k \in 1..Len(st.order[s]) :
                      \E e \in child_of(st, s, st.order[s][k]) :
                         json_column_to_cudf_column2(st, e[3])
                 THEN "table" ELSE "error"

\* ------------------------------- row offsets of the nodes (tree traversal)
\* a child of a list is the next row of the list's child column; any other
\* node is at the row of its parent
row_offsets_of(nodes, col_ids) ==
  LET f[k \in 1..Len(nodes)] ==
        LET p == nodes[k].parent IN
        IF p = parent_node_sentinel THEN 0
        ELSE IF nodes[p + 1].category = "NC_LIST"
          THEN Cardinality({j \in 1..(k - 1) :
                  /\ nodes[j].parent # parent_node_sentinel
                  /\ col_ids[nodes[j].parent + 1] = col_ids[p + 1]})
          ELSE f[p + 1]
  IN  seq_of(f, Len(nodes))

\* --------------------------------------- reduce_to_column_tree (column tree)
\* the reduce_by_key operator on <<row offset, category>> pairs
max_row_offsets_col_categories(a, b) ==
  LET type_a == a[2]
      type_b == b[2]
      is_a_leaf == type_a \in {"NC_VAL", "NC_STR"}
      is_b_leaf == type_b \in {"NC_VAL", "NC_STR"}
      ctg == IF type_a = type_b THEN type_a
             ELSE IF is_a_leaf
               THEN (IF type_b = "NC_FN" THEN "NC_ERR" ELSE IF is_b_leaf THEN "NC_STR" ELSE type_b)
             ELSE IF is_b_leaf
               THEN (IF type_a = "NC_FN" THEN "NC_ERR" ELSE IF is_a_leaf THEN "NC_STR" ELSE type_a)
             ELSE "NC_ERR"
  IN  <<Max(a[1], b[1]), ctg>>

RECURSIVE reduce_by_key(_, _)
\* left-to-right reduction of the non-empty run vals[1..k]
reduce_by_key(vals, k) ==
  IF k = 1 THEN vals[1]
  ELSE max_row_offsets_col_categories(reduce_by_key(vals, k - 1), vals[k])

RECURSIVE fetch_store(_, _)
\* a cell that starts at 0 after plain stores of vals[1..k], in this order
fetch_store(vals, k) == IF k = 0 THEN 0 ELSE vals[k]

RECURSIVE fetch_max(_, _)
\* list_parents_children_max_row_offsets[p]: a cell that starts at 0, after
\* the atomic fetch_max of vals[1..k], applied in this order
fetch_max(vals, k) ==
  IF k = 0 THEN 0 ELSE Max(fetch_max(vals, k - 1), vals[k])

\* one entry per column id (column id c at position c + 1)
reduce_to_column_tree(in, nodes, col_ids, row_offsets) ==
  LET ncols == IF Len(col_ids) = 0 THEN 0
               ELSE 1 + (CHOOSE m \in {col_ids[k] : k \in 1..Len(col_ids)} :
                           \A k \in 1..Len(col_ids) : col_ids[k] <= m)
      \* node ids sorted by column id (stable): the nodes of each column in order
      members == seq_of([c1 \in 1..ncols |->
                          SeqOfSet({k \in 1..Len(nodes) : col_ids[k] = c1 - 1})], ncols)
      red == seq_of([c1 \in 1..ncols |->
                LET ms == members[c1]
                IN  reduce_by_key([j \in 1..Len(ms) |->
                                     <<row_offsets[ms[j]], nodes[ms[j]].category>>], Len(ms))],
                ncols)
      cat(c) == red[c + 1][2]
      par == seq_of([c1 \in 1..ncols |->
                LET pn == nodes[members[c1][1]].parent
                IN  IF pn = parent_node_sentinel THEN parent_node_sentinel
                    ELSE col_ids[pn + 1]], ncols)
      is_non_list_parent(p) == ~(p = parent_node_sentinel \/ cat(p) = "NC_LIST")
      \* atomic max over the children of each list column, then gathered back
      list_max(p) ==
        LET kids == SeqOfSet({c \in 0..(ncols - 1) : par[c + 1] = p /\ cat(p) = "NC_LIST"})
        IN  fetch_max([j \in 1..Len(kids) |-> red[kids[j] + 1][1]], Len(kids))
      m1 == seq_of([c1 \in 1..ncols |->
               IF par[c1] # parent_node_sentinel /\ cat(par[c1]) = "NC_LIST"
               THEN list_max(par[c1]) ELSE red[c1][1]], ncols)
      \* the ancestor of c that is a child of a list, or a root
      top[c \in 0..(ncols - 1)] == IF is_non_list_parent(par[c + 1]) THEN top[par[c + 1]] ELSE c
  IN  seq_of([c1 \in 1..ncols |->
        LET c == c1 - 1
            n == nodes[members[c1][1]]
        IN  [category        |-> cat(c),
             parent          |-> par[c1],
             range_begin     |-> n.range_begin,
             range_end       |-> IF cat(c) \in {"NC_STRUCT", "NC_LIST"}
                                 THEN n.range_begin + 1 ELSE n.range_end,
             name            |-> node_name(in, n),
             max_row_offsets |-> m1[top[c] + 1]]], ncols)

\* the literals that read as null
trie_na == {<<>>, <<"n", "u", "l", "l">>}

\* is_all_nulls_each_column: the column ids some node of which is a leaf with a
\* text that is not a null literal are not all-null
is_all_nulls_each_column(in, ct, nodes, col_ids) ==
  seq_of([c1 \in 1..Len(ct) |->
     ~\E i \in 1..Len(nodes) :
        /\ col_ids[i] = c1 - 1
        /\ ct[c1].category \in {"NC_STR", "NC_VAL"}
        /\ SubSeq(in, nodes[i].range_begin + 1, nodes[i].range_end) \notin trie_na], Len(ct))

\* ---------------------------------------------- build_tree (device columns)
\* A device column is known by the column id that created it; the root of the
\* device column tree by the sentinel. The state of build_tree:
\*   type, num_rows : per device column ("None" / 0 when not created)
\*   children       : <<parent device column, name, child device column>>
\*   order          : column_order of each device column
\*   columns        : <<column id, device column>>, the map of references
\*   mapped         : <<parent column id, name, column id>>, mapped_columns
\*   cats           : column_categories
name_and_parent_index(ct, cats, this_col_id) ==
  LET parent_col_id == ct[this_col_id + 1].parent IN
  IF parent_col_id = parent_node_sentinel \/ cats[parent_col_id] = "NC_LIST"
  THEN [name |-> list_child_name, parent |-> parent_col_id, fail |-> FALSE]
  ELSE IF cats[parent_col_id] = "NC_FN"
  THEN [name   |-> ct[parent_col_id + 1].name,
        parent |-> ct[parent_col_id + 1].parent,
        fail   |-> FALSE]
  ELSE [name |-> <<>>, parent |-> parent_col_id, fail |-> TRUE]

\* the device column that column id c refers to
column_at(st, c) == (CHOOSE e \in st.columns : e[1] = c)[2]

has_column(st, c) == \E e \in st.columns : e[1] = c

\* a column initialised one row short
num_rows_short(ct, i) == ct[i + 1].max_row_offsets

\* col.num_rows of a column initialised for column id i
num_rows_of(ct, i) == ct[i + 1].max_row_offsets + 1

reinitialize_as_string(ct, st, i, col) ==
  [st EXCEPT !.num_rows[col] = num_rows_of(ct, i),
             !.type[col]     = "StringColumn"]

RECURSIVE remove_child_columns(_, _, _, _)
\* removes the children of device column col (named by this_col_id), names
\* order[col][k..] still to do
remove_child_columns(st, this_col_id, col, k) ==
  IF k > Len(st.order[col])
  THEN [st EXCEPT !.children = {e \in @ : e[1] # col},
                  !.order[col] = <<>>]
  ELSE
    LET col_name == st.order[col][k]
        found    == {m \in st.mapped : m[1] = this_col_id /\ m[2] = col_name}
        \* operator[] of the map inserts 0 for a missing key
        child_id == IF found = {} THEN 0 ELSE (CHOOSE m \in found : TRUE)[3]
        child    == (CHOOSE e \in st.children : e[1] = col /\ e[2] = col_name)[3]
        st1      == [st EXCEPT !.mixed = @ \cup {child_id}]
        st2      == remove_child_columns(st1, child_id, child, 1)
        st3      == [st2 EXCEPT !.mapped  = {m \in @ : ~(m[1] = this_col_id /\ m[2] = col_name)},
                                !.columns = {e \in @ : e[1] # child_id}]
    IN  remove_child_columns(st3, this_col_id, col, k + 1)

\* every same-name pair counts as mixed
is_mixed_type_always(cats, all_nulls, this_col_id, old_col_id) == TRUE

\* new or old is a leaf column of nulls only: not a mixed type
is_mixed_type(cats, all_nulls, this_col_id, old_col_id) ==
  /\ ~(cats[this_col_id] \in {"NC_VAL", "NC_STR"} /\ all_nulls[this_col_id + 1])
  /\ ~(cats[old_col_id] \in {"NC_VAL", "NC_STR"} /\ all_nulls[old_col_id + 1])

\* a leaf column never yields to an existing column
ignores_this_column_never(cats, this_col_id) == FALSE

\* a leaf column that finds its name taken is ignored
ignores_this_column(cats, this_col_id) ==
  cats[this_col_id] \in {"NC_VAL", "NC_STR"}

RECURSIVE build_tree_loop(_, _, _, _, _, _)
\* the loop over unique_col_ids that builds the column tree and handles mixed
\* types; sentinel_read holds what forced_as_string_column[-1] and
\* is_mixed_type_column[-1] read as
build_tree_loop(ct, all_nulls, mixed_types_as_string, sentinel_read, ids_todo, st) ==
  IF ids_todo = <<>> \/ st.threw # "" THEN st
  ELSE
    LET this_col_id == Head(ids_todo)
        rest        == Tail(ids_todo)
        cat         == st.cats[this_col_id]
        again(s)    == build_tree_loop(ct, all_nulls, mixed_types_as_string,
                                       sentinel_read, rest, s)
    IN
    IF cat \in {"NC_ERR", "NC_FN"} THEN again(st)
    ELSE
      LET np == name_and_parent_index(ct, st.cats, this_col_id)
          name == np.name
          parent_col_id == np.parent
          is_sentinel == parent_col_id = parent_node_sentinel
          forced_parent == IF is_sentinel THEN sentinel_read.forced
                           ELSE parent_col_id \in st.forced
          mixed_parent  == IF is_sentinel THEN sentinel_read.mixed
                           ELSE parent_col_id \in st.mixed
      IN
      IF np.fail THEN [st EXCEPT !.threw = "Unexpected parent column category"]
      ELSE IF (~is_sentinel /\ (parent_col_id \in st.mixed \/ this_col_id \in st.pruned))
              \/ forced_parent
      THEN again([st EXCEPT !.ignore_vals = @ \cup {this_col_id},
                            !.mixed  = IF mixed_parent THEN @ \cup {this_col_id} ELSE @,
                            !.forced = IF forced_parent THEN @ \cup {this_col_id} ELSE @])
      ELSE IF ~has_column(st, parent_col_id)
      THEN [st EXCEPT !.threw = "Parent column not found"]
      ELSE
        LET parent_col == column_at(st, parent_col_id)
            found      == {m \in st.mapped : m[1] = parent_col_id /\ m[2] = name}
            old_col_id == IF found = {} THEN -1 ELSE (CHOOSE m \in found : TRUE)[3]
            leaf(c)    == st.cats[c] \in {"NC_VAL", "NC_STR"}
        IN
        IF /\ found # {}
           /\ mixed_types_as_string
           /\ is_mixed_type(st.cats, all_nulls, this_col_id, old_col_id)
        THEN
          LET col == column_at(st, old_col_id)
              st1 == [st EXCEPT !.mixed = @ \cup {this_col_id, old_col_id}]
              st2 == IF st1.type[col] \in {"ListColumn", "StructColumn"}
                     THEN remove_child_columns(
                            reinitialize_as_string(ct, st1, old_col_id, col), old_col_id, col, 1)
                     ELSE st1
              st3 == [st2 EXCEPT !.forced_col = @ \cup {col},
                                 !.columns = IF has_column(st2, this_col_id) THEN @
                                             ELSE @ \cup {<<this_col_id, col>>}]
          IN  again(st3)
        ELSE IF found # {} /\ ignores_this_column(st.cats, this_col_id)
        THEN again([st EXCEPT !.ignore_vals = @ \cup {this_col_id}])
        ELSE IF found # {} /\ ~leaf(old_col_id)
                /\ {st.cats[old_col_id], st.cats[this_col_id]} = {"NC_LIST", "NC_STRUCT"}
        THEN [st EXCEPT !.threw =
                "A mix of lists and structs within the same column is not supported"]
        ELSE
          LET replaced == found # {} /\ leaf(old_col_id)
              st1 == IF replaced
                     THEN [st EXCEPT !.ignore_vals = @ \cup {old_col_id},
                                     !.mapped   = @ \ found,
                                     !.columns  = {e \in @ : e[1] # old_col_id},
                                     !.children = {e \in @ : ~(e[1] = parent_col /\ e[2] = name)}]
                     ELSE st
          IN
          IF \E e \in st1.children : e[1] = parent_col /\ e[2] = name
          THEN [st1 EXCEPT !.threw = "duplicate column name"]
          ELSE again(
            [st1 EXCEPT
               !.type[this_col_id]     = to_json_col_type(cat),
               !.num_rows[this_col_id] = num_rows_of(ct, this_col_id),
               !.children = @ \cup {<<parent_col, name, this_col_id>>},
               !.order[parent_col] = IF replaced THEN @ ELSE Append(@, name),
               !.columns  = IF has_column(st1, this_col_id) THEN @
                            ELSE @ \cup {<<this_col_id, this_col_id>>},
               !.mapped   = IF \E m \in st1.mapped : m[1] = parent_col_id /\ m[2] = name
                            THEN @ ELSE @ \cup {<<parent_col_id, name, this_col_id>>}])

RECURSIVE ignore_children_of_mixed(_, _, _)
\* the pass that ignores all children of mixed type columns
ignore_children_of_mixed(ct, ids_todo, st) ==
  IF ids_todo = <<>> THEN st
  ELSE
    LET this_col_id   == Head(ids_todo)
        parent_col_id == ct[this_col_id + 1].parent
        hit == parent_col_id # parent_node_sentinel /\ parent_col_id \in st.mixed
        st1 == IF hit
               THEN [st EXCEPT !.mixed       = @ \cup {this_col_id},
                               !.ignore_vals = @ \cup {this_col_id},
                               !.columns     = {e \in @ : e[1] # this_col_id}]
               ELSE st
        st2 == IF parent_col_id # parent_node_sentinel /\ parent_col_id \notin st1.mixed
                  /\ this_col_id \in st1.mixed
               THEN [st1 EXCEPT !.cats[this_col_id] = "NC_STR"]
               ELSE st1
    IN  ignore_children_of_mixed(ct, Tail(ids_todo), st2)

RECURSIVE ignore_children_of_forced(_, _, _)
\* the pass that ignores all children of columns forced as string
ignore_children_of_forced(ct, ids_todo, st) ==
  IF ids_todo = <<>> THEN st
  ELSE
    LET this_col_id   == Head(ids_todo)
        parent_col_id == ct[this_col_id + 1].parent
        hit == parent_col_id # parent_node_sentinel /\ parent_col_id \in st.forced
        st1 == IF hit
               THEN [st EXCEPT !.forced      = @ \cup {this_col_id},
                               !.ignore_vals = @ \cup {this_col_id}]
               ELSE st
        st2 == IF parent_col_id # parent_node_sentinel /\ parent_col_id \notin st1.forced
                  /\ this_col_id \in st1.forced
               THEN [st1 EXCEPT !.cats[this_col_id] = "NC_STR"]
               ELSE st1
    IN  ignore_children_of_forced(ct, Tail(ids_todo), st2)

\* build_tree with column pruning off and no user-given types
build_tree(ct, all_nulls, mixed_types_as_string, sentinel_read) ==
  LET n   == Len(ct)
      ids == sort_by_range_begin(ct)
      st0 == [type        |-> [c \in -1..(n - 1) |-> IF c = -1 THEN "ListColumn" ELSE "None"],
              num_rows    |-> [c \in -1..(n - 1) |-> 0],
              children    |-> {},
              order       |-> [c \in -1..(n - 1) |-> <<>>],
              columns     |-> {<<parent_node_sentinel, parent_node_sentinel>>},
              mapped      |-> {},
              ignore_vals |-> {},
              mixed       |-> {},
              pruned      |-> {},
              forced      |-> {},
              forced_col  |-> {},
              cats        |-> [c \in 0..(n - 1) |-> ct[c + 1].category],
              threw       |-> ""]
      st1 == build_tree_loop(ct, all_nulls, mixed_types_as_string, sentinel_read, ids, st0)
      st2 == IF mixed_types_as_string THEN ignore_children_of_mixed(ct, ids, st1) ELSE st1
  IN  IF st1.threw # "" THEN st1 ELSE ignore_children_of_forced(ct, ids, st2)

\* ------------------------------------ build_tree with column pruning
RECURSIVE schema_of_path(_, _, _)
\* the schema element the user's types hold for the names path[k..], below the
\* child types kids; <<>> when there is none
schema_of_path(kids, path, k) ==
  LET hit == {j \in 1..Len(kids) : kids[j][1] = path[k]}
  IN  IF hit = {} THEN <<>>
      ELSE LET el == kids[CHOOSE j \in hit : TRUE][2]
           IN  IF k = Len(path) THEN <<el>>
               ELSE schema_of_path(el.child_types, path, k + 1)

RECURSIVE get_path(_, _, _)
\* tree_path.get_path: the names from the record down to column this_col_id,
\* a field by its name and the child of a list by list_child_name
get_path(ct, cats, this_col_id) ==
  LET np == name_and_parent_index(ct, cats, this_col_id)
  IN  IF np.fail \/ np.parent = parent_node_sentinel
         \/ ct[np.parent + 1].parent = parent_node_sentinel
      THEN <<>>
      ELSE Append(get_path(ct, cats, np.parent), np.name)

\* get_path_data_type: whether the user gave a type for the path of the
\* column; row_typed is what it answers for the record itself
get_path_data_type(ct, cats, this_col_id, dtypes, row_typed) ==
  LET nt == get_path(ct, cats, this_col_id)
  IN  IF nt = <<>> THEN row_typed
      ELSE schema_of_path(dtypes, nt, 1) # <<>>

\* the parents are left as they are
unprune_parents_never(ct, is_pruned, parent_col_id) == is_pruned

RECURSIVE unprune_parents(_, _, _)
\* make sure all its parents are not pruned
unprune_parents(ct, is_pruned, parent_col_id) ==
  IF parent_col_id # parent_node_sentinel /\ parent_col_id \in is_pruned
  THEN unprune_parents(ct, is_pruned \ {parent_col_id}, ct[parent_col_id + 1].parent)
  ELSE is_pruned

RECURSIVE prune_columns_loop(_, _, _, _, _, _)
\* the loop that prunes the columns that are not required to be parsed
prune_columns_loop(ct, cats, dtypes, row_typed, ids_todo, is_pruned) ==
  IF ids_todo = <<>> THEN is_pruned
  ELSE
    LET this_col_id == Head(ids_todo)
        np          == name_and_parent_index(ct, cats, this_col_id)
        next(x)     == prune_columns_loop(ct, cats, dtypes, row_typed, Tail(ids_todo), x)
    IN  IF cats[this_col_id] \in {"NC_ERR", "NC_FN"} \/ np.fail THEN next(is_pruned)
        ELSE IF /\ ~get_path_data_type(ct, cats, this_col_id, dtypes, row_typed)
                /\ np.parent # parent_node_sentinel
        THEN next(is_pruned \cup {this_col_id})
        ELSE next(unprune_parents(ct, is_pruned, np.parent))

\* build_tree with column pruning on and the user's types dtypes
build_tree_pruned(ct, all_nulls, mixed_types_as_string, sentinel_read, dtypes, row_typed) ==
  LET n    == Len(ct)
      ids  == sort_by_range_begin(ct)
      cats == [c \in 0..(n - 1) |-> ct[c + 1].category]
      st0  == [type        |-> [c \in -1..(n - 1) |-> IF c = -1 THEN "ListColumn" ELSE "None"],
               num_rows    |-> [c \in -1..(n - 1) |-> 0],
               children    |-> {},
               order       |-> [c \in -1..(n - 1) |-> <<>>],
               columns     |-> {<<parent_node_sentinel, parent_node_sentinel>>},
               mapped      |-> {},
               ignore_vals |-> {},
               mixed       |-> {},
               pruned      |-> prune_columns_loop(ct, cats, dtypes, row_typed, ids, {}),
               forced      |-> {},
               forced_col  |-> {},
               cats        |-> cats,
               threw       |-> ""]
      ended(st1) ==
        IF st1.threw # "" THEN st1
        ELSE ignore_children_of_forced(ct, ids,
               IF mixed_types_as_string THEN ignore_children_of_mixed(ct, ids, st1) ELSE st1)
  IN  ended(build_tree_loop(ct, all_nulls, mixed_types_as_string, sentinel_read, ids, st0))

\* --------------------------------------------------------- scatter_offsets
\* the value an array cell holds after parallel writes W (<<column, index,
\* value>>) to a zero-initialised array; writes that disagree are a race
cell_after(W, col, idx) ==
  LET vs == {w[3] : w \in {x \in W : x[1] = col /\ x[2] = idx}}
  IN  IF vs = {} THEN 0 ELSE CHOOSE v \in vs : TRUE

\* the offsets left as the scatter passes wrote them, without the scan
offsets_not_scanned(a, k) == SubSeq(a, 1, k)

RECURSIVE inclusive_scan_max(_, _)
\* thrust::inclusive_scan with thrust::maximum over a[1..k]
inclusive_scan_max(a, k) ==
  IF k = 0 THEN <<>>
  ELSE LET prev == inclusive_scan_max(a, k - 1)
       IN  Append(prev, IF k = 1 THEN a[1] ELSE Max(prev[k - 1], a[k]))

\* stable sort of node ids by the column id of their parent node
stable_sort_by_parent_col(ids, key) ==
  LET n == Len(ids)
      rank(k) == Cardinality({j \in 1..n : key[ids[j]] < key[ids[k]]
                                            \/ (key[ids[j]] = key[ids[k]] /\ j < k)})
  IN  seq_of([p \in 1..n |-> ids[CHOOSE k \in 1..n : rank(k) = p - 1]], n)

\* nodes are 1-based here: node id i of the code is position i + 1
scatter_offsets(nodes, col_ids, row_offsets, st) ==
  LET N == 1..Len(nodes)
      devs == {e[2] : e \in st.columns} \ {parent_node_sentinel}
      \* 3. string offsets and validity bits
      writers == {i \in N : /\ col_ids[i] \notin st.ignore_vals
                            /\ st.cats[col_ids[i]] \in {"NC_STRUCT", "NC_LIST", "NC_STR", "NC_VAL"}}
      leaf_writers == {i \in writers : st.cats[col_ids[i]] \in {"NC_STR", "NC_VAL"}}
      in_range(i) == /\ has_column(st, col_ids[i])
                     /\ row_offsets[i] < st.num_rows[column_at(st, col_ids[i])]
      validity == {<<column_at(st, col_ids[i]), row_offsets[i]>> : i \in {j \in writers : in_range(j)}}
      Woff == {<<column_at(st, col_ids[i]), row_offsets[i], nodes[i].range_begin>> :
                 i \in {j \in leaf_writers : in_range(j)}}
      Wlen == {<<column_at(st, col_ids[i]), row_offsets[i],
                 nodes[i].range_end - nodes[i].range_begin>> :
                 i \in {j \in leaf_writers : in_range(j)}}
      \* 4. list offsets
      parent_col_id == seq_of([i \in N |-> IF nodes[i].parent = parent_node_sentinel
                                            THEN parent_node_sentinel
                                            ELSE col_ids[nodes[i].parent + 1]], Len(nodes))
      list_children == SeqOfSet({i \in N :
                          /\ nodes[i].parent # parent_node_sentinel
                          /\ st.cats[parent_col_id[i]] = "NC_LIST"
                          /\ parent_col_id[i] \notin st.ignore_vals})
      node_ids == stable_sort_by_parent_col(list_children, parent_col_id)
      num_list_children == Len(node_ids)
      is_first(i) == i = 1 \/ nodes[node_ids[i - 1]].parent # nodes[node_ids[i]].parent
      is_last(i)  == i = num_list_children
                     \/ nodes[node_ids[i + 1]].parent # nodes[node_ids[i]].parent
      list_ok(i) == /\ has_column(st, parent_col_id[node_ids[i]])
                    /\ row_offsets[nodes[node_ids[i]].parent + 1] + 1
                         <= st.num_rows[column_at(st, parent_col_id[node_ids[i]])]
      Wchild ==
        {<<column_at(st, parent_col_id[node_ids[i]]),
           row_offsets[nodes[node_ids[i]].parent + 1], row_offsets[node_ids[i]]>> :
           i \in {k \in 1..num_list_children : is_first(k) /\ list_ok(k)}}
        \cup
        {<<column_at(st, parent_col_id[node_ids[i]]),
           row_offsets[nodes[node_ids[i]].parent + 1] + 1, row_offsets[node_ids[i]] + 1>> :
           i \in {k \in 1..num_list_children : is_last(k) /\ list_ok(k)}}
      races(W) == \E x \in W, y \in W : x[1] = y[1] /\ x[2] = y[2] /\ x[3] # y[3]
      raw_off == [d \in devs |-> [r \in 1..st.num_rows[d] |-> cell_after(Woff, d, r - 1)]]
      raw_len == [d \in devs |-> [r \in 1..st.num_rows[d] |-> cell_after(Wlen, d, r - 1)]]
      raw_child == [d \in devs |-> [r \in 1..(st.num_rows[d] + 1) |-> cell_after(Wchild, d, r - 1)]]
  IN  [validity       |-> validity,
       \* the nodes the passes 3 and 4 wrote something for
       nodes_written  |-> writers \cup {node_ids[k] : k \in 1..num_list_children},
       \* the nodes pass 3 wrote a validity bit, an offset or a length for
       rows_written   |-> writers,
       \* 5. scan on offsets
       string_offsets |-> [d \in devs |->
                             IF st.type[d] = "StringColumn"
                             THEN inclusive_scan_max(raw_off[d], st.num_rows[d])
                             ELSE <<>>],
       string_lengths |-> [d \in devs |->
                             IF st.type[d] = "StringColumn" THEN raw_len[d] ELSE <<>>],
       child_offsets  |-> [d \in devs |->
                             IF st.type[d] = "ListColumn"
                             THEN inclusive_scan_max(raw_child[d], st.num_rows[d] + 1)
                             ELSE <<>>],
       \* a write through the data pointers of a column that has none, or
       \* past the end of its arrays
       bad_write      |-> \/ \E i \in writers : ~in_range(i)
                          \/ \E k \in 1..num_list_children : ~list_ok(k),
       race           |-> races(Woff) \/ races(Wlen) \/ races(Wchild),
       \* what the tasks of the passes 3 and 4 write: <<column, index, value>>
       writes         |-> [validity       |-> {<<w[1], w[2], 1>> : w \in validity},
                           string_offsets |-> Woff,
                           string_lengths |-> Wlen,
                           child_offsets  |-> Wchild],
       \* the elements of the sorted node_ids (from 0) that the run-boundary
       \* detection of pass 4 reads beside its own, and how many there are
       boundary_reads |-> {k - 2 : k \in {j \in 1..num_list_children : ~(j = 1)}}
                          \cup {k : k \in {j \in 1..num_list_children : ~(j = num_list_children)}},
       boundary_size  |-> num_list_children]

\* ------------------------------------------------- make_device_json_column
make_device_json_column(in, nodes, col_ids, row_offsets, mixed_types_as_string, sentinel_read) ==
  LET ct        == reduce_to_column_tree(in, nodes, col_ids, row_offsets)
      all_nulls == is_all_nulls_each_column(in, ct, nodes, col_ids)
      st        == build_tree(ct, all_nulls, mixed_types_as_string, sentinel_read)
  IN  IF st.threw # ""
      THEN [threw |-> st.threw, ct |-> ct, st |-> st, col_ids |-> col_ids,
            row_offsets |-> row_offsets, sentinel_read |-> sentinel_read, data |-> <<>>]
      ELSE [threw |-> "", ct |-> ct, st |-> st, col_ids |-> col_ids,
            row_offsets |-> row_offsets, sentinel_read |-> sentinel_read,
            data |-> scatter_offsets(nodes, col_ids, row_offsets, st)]

\* make_device_json_column with column pruning on
make_device_json_column_pruned(in, nodes, col_ids, row_offsets, mixed_types_as_string, sentinel_read, dtypes, row_typed) ==
  LET ct == reduce_to_column_tree(in, nodes, col_ids, row_offsets)
      scattered(st) ==
        [threw |-> st.threw, ct |-> ct, st |-> st, col_ids |-> col_ids,
         row_offsets |-> row_offsets, sentinel_read |-> sentinel_read,
         prune_columns |-> TRUE, dtypes |-> dtypes,
         data |-> IF st.threw # "" THEN <<>>
                  ELSE scatter_offsets(nodes, col_ids, row_offsets, st)]
  IN  scattered(build_tree_pruned(ct, is_all_nulls_each_column(in, ct, nodes, col_ids),
                                  mixed_types_as_string, sentinel_read, dtypes, row_typed))

\* --------------------------- experimental::build_tree (column pruning)
\* A schema_element is [type, child_types]: type is "STRUCT", "LIST" or "INT64"
\* (any type that is not nested), child_types the <<name, schema_element>>
\* pairs in the order of their keys. The state of build_tree is the one of the
\* device column tree (type, num_rows, children, order, columns, threw) with
\*   is_pruned      : the column ids marked pruned
\*   expected_types : the forced category per column id, or NUM_NODE_CLASSES
\* A device column is known by the column id of its field name, the child of
\* a list by list_child_ref of the list.
NUM_NODE_CLASSES == "NUM_NODE_CLASSES"

\* adj[p]: the column ids whose parent is p, in the order of unique_col_ids
adj(ct, ids, p) == SelectSeq(ids, LAMBDA c : ct[c + 1].parent = p)

RECURSIVE offspring(_, _)
\* the column ids below p
offspring(ct, p) ==
  LET kids == {c \in 0..(Len(ct) - 1) : ct[c + 1].parent = p}
  IN  kids \cup UNION {offspring(ct, c) : c \in kids}

\* prune all children of a column, but not self
ignore_all_children(ct, s, parent_col_id) ==
  [s EXCEPT !.is_pruned = @ \cup offspring(ct, parent_col_id)]

\* the first of child_ids whose name is name, or -1
lookup_names(ct, child_ids, name) ==
  LET hit == {k \in 1..Len(child_ids) : ct[child_ids[k] + 1].name = name}
  IN  IF hit = {} THEN -1
      ELSE child_ids[CHOOSE k \in hit : \A j \in hit : k <= j]

RECURSIVE mark_is_pruned(_, _, _, _, _)
RECURSIVE mark_each_child(_, _, _, _, _, _)
RECURSIVE mark_child_types(_, _, _, _, _, _)
\* for (child_id : child_ids) mark_is_pruned(child_id, schema), from the k-th on
mark_each_child(ct, ids, child_ids, k, schema, s) ==
  IF k > Len(child_ids) THEN s
  ELSE mark_each_child(ct, ids, child_ids, k + 1, schema,
                       mark_is_pruned(ct, ids, child_ids[k], schema, s))

\* the loop over schema.child_types of a struct, from the k-th key on
mark_child_types(ct, ids, root, schema, k, s) ==
  IF k > Len(schema.child_types) THEN s
  ELSE LET key_pair == schema.child_types[k]
           col_id   == lookup_names(ct, adj(ct, ids, root), key_pair[1])
       IN  IF col_id = -1 THEN mark_child_types(ct, ids, root, schema, k + 1, s)
           ELSE mark_child_types(ct, ids, root, schema, k + 1,
                  mark_each_child(ct, ids, adj(ct, ids, col_id), 1, key_pair[2],
                                  [s EXCEPT !.is_pruned = @ \ {col_id}]))

\* recursive lambda on schema to mark columns as pruned
mark_is_pruned(ct, ids, root, schema, s) ==
  IF root = -1 THEN s
  ELSE
    LET cat    == ct[root + 1].category
        nested == schema.type \in {"STRUCT", "LIST"}
        pass   == \/ schema.type = "STRUCT" /\ cat = "NC_STRUCT"
                  \/ schema.type = "LIST" /\ cat = "NC_LIST"
                  \/ ~nested /\ cat # "NC_FN"
    IN
    IF ~pass THEN ignore_all_children(ct, [s EXCEPT !.is_pruned = @ \cup {root}], root)
    ELSE
      LET expected_type == IF nested THEN cat ELSE "NC_STR"
          s1 == [s EXCEPT !.is_pruned = @ \ {root},
                          !.expected_types[root] = expected_type]
          this_list_child_name == IF Len(schema.child_types) = 1
                                  THEN schema.child_types[1][1] ELSE list_child_name
          found == {k \in 1..Len(schema.child_types) :
                      schema.child_types[k][1] = this_list_child_name}
          mark_children(s2) ==
            IF ~nested THEN s2
            ELSE IF schema.type = "STRUCT" THEN mark_child_types(ct, ids, root, schema, 1, s2)
            ELSE IF found = {} THEN s2
            ELSE mark_each_child(ct, ids, adj(ct, ids, root), 1,
                                 schema.child_types[CHOOSE k \in found : TRUE][2], s2)
      IN  mark_children(IF expected_type = "NC_STR" /\ cat \in {"NC_STRUCT", "NC_LIST"}
                        THEN ignore_all_children(ct, s1, root) ELSE s1)

\* the last of child_ids whose category is one of cats, or -1
last_of_category(ct, child_ids, cats) ==
  LET hit == {k \in 1..Len(child_ids) : ct[child_ids[k] + 1].category \in cats}
  IN  IF hit = {} THEN -1
      ELSE child_ids[CHOOSE k \in hit : \A j \in hit : j <= k]

\* handle_mixed_types: the children that are left, the state, and the error
handle_mixed_types(ct, all_nulls, mixed_types_as_string, value_col_ids, s) ==
  LET child_ids     == SelectSeq(value_col_ids, LAMBDA c : c \notin s.is_pruned)
      str_col_id    == last_of_category(ct, child_ids, {"NC_VAL", "NC_STR"})
      struct_col_id == last_of_category(ct, child_ids, {"NC_STRUCT"})
      list_col_id   == last_of_category(ct, child_ids, {"NC_LIST"})
      force(x, c)   == IF c = -1 THEN x
                       ELSE ignore_all_children(ct, [x EXCEPT !.expected_types[c] = "NC_STR"], c)
      force_both(x) == force(force(x, struct_col_id), list_col_id)
      with_strings(s1) ==
            IF (struct_col_id # -1 \/ list_col_id # -1) /\ str_col_id # -1
            THEN IF all_nulls[str_col_id + 1]
                 THEN [s1 EXCEPT !.is_pruned = @ \cup {str_col_id}]
                 ELSE force_both(s1)
            ELSE s1
  IN  IF mixed_types_as_string
      THEN [s |-> with_strings(IF struct_col_id # -1 /\ list_col_id # -1
                               THEN force_both(s) ELSE s),
            child_ids |-> child_ids, threw |-> ""]
      ELSE IF struct_col_id # -1 /\ list_col_id # -1
      THEN [s |-> s, child_ids |-> child_ids,
            threw |-> "A mix of lists and structs within the same column is not supported"]
      ELSE [s |-> IF (struct_col_id # -1 \/ list_col_id # -1) /\ str_col_id # -1
                  THEN [s EXCEPT !.is_pruned = @ \cup {str_col_id}] ELSE s,
            child_ids |-> child_ids, threw |-> ""]

\* the device column that is the child of the list column id c
list_child_ref(ct, c) == Len(ct) + 1 + c

initialize_json_columns(ct, s, i, ref, column_category) ==
  IF s.type[ref] # "Unknown" \/ column_category \in {"NC_ERR", "NC_FN"} THEN s
  ELSE [s EXCEPT !.type[ref]     = to_json_col_type(column_category),
                 !.num_rows[ref] = num_rows_of(ct, i)]

RECURSIVE construct_tree(_, _, _, _, _, _, _)
RECURSIVE construct_values(_, _, _, _, _, _, _, _)
RECURSIVE construct_fields(_, _, _, _, _, _, _, _)
\* for (child_id : value_col_ids): the children of a field or of a list, all
\* built into the device column this_ref, from the k-th on
construct_values(ct, ids, all_nulls, mixed_types_as_string, value_col_ids, k, this_ref, s) ==
  IF k > Len(value_col_ids) \/ s.threw # "" THEN s
  ELSE
    LET child_id == value_col_ids[k]
        s1 == IF child_id \in s.is_pruned THEN s
              ELSE construct_tree(ct, ids, all_nulls, mixed_types_as_string, child_id, this_ref,
                     [s EXCEPT !.columns = IF has_column(s, child_id) THEN @
                                           ELSE @ \cup {<<child_id, this_ref>>}])
    IN  construct_values(ct, ids, all_nulls, mixed_types_as_string, value_col_ids, k + 1,
                         this_ref, s1)

\* for (field_id : child_ids): the fields of a struct, from the k-th on
construct_fields(ct, ids, all_nulls, mixed_types_as_string, child_ids, k, ref, s) ==
  IF k > Len(child_ids) \/ s.threw # "" THEN s
  ELSE
    LET field_id == child_ids[k]
        name     == ct[field_id + 1].name
        next(x)  == construct_fields(ct, ids, all_nulls, mixed_types_as_string, child_ids,
                                     k + 1, ref, x)
        s1 == [s EXCEPT !.children   = @ \cup {<<ref, name, field_id>>},
                        !.order[ref] = Append(@, name)]
        field(h) ==
          IF h.threw # "" THEN [s1 EXCEPT !.threw = h.threw]
          ELSE IF h.child_ids = <<>>
          THEN \* If no column is present, remove the uninitialized column.
               [h.s EXCEPT !.children   = @ \ {<<ref, name, field_id>>},
                           !.order[ref] = SubSeq(@, 1, Len(@) - 1)]
          ELSE construct_values(ct, ids, all_nulls, mixed_types_as_string, h.child_ids, 1,
                                field_id, h.s)
    IN
    next(IF field_id \in s.is_pruned THEN s
         ELSE IF child_of(s, ref, name) # {}
         THEN [s EXCEPT !.threw =
                 "struct child column insertion failed, duplicate column name in the parent"]
         ELSE field(handle_mixed_types(ct, all_nulls, mixed_types_as_string,
                                       adj(ct, ids, field_id), s1)))

\* creates children column
construct_tree(ct, ids, all_nulls, mixed_types_as_string, root, ref, s) ==
  IF root \in s.is_pruned \/ s.threw # "" THEN s
  ELSE
    LET expected_category == IF s.expected_types[root] = NUM_NODE_CLASSES
                             THEN ct[root + 1].category ELSE s.expected_types[root]
        child_ids == adj(ct, ids, root)
        this_ref  == list_child_ref(ct, root)
        list_child(s2, h) ==
          IF h.threw # "" THEN [s2 EXCEPT !.threw = h.threw]
          ELSE construct_values(ct, ids, all_nulls, mixed_types_as_string, h.child_ids, 1,
                 this_ref,
                 IF h.child_ids = <<>>
                 THEN [h.s EXCEPT !.children = @ \ {<<ref, list_child_name, this_ref>>}]
                 ELSE h.s)
        emplaced(s2) ==
          list_child(s2, handle_mixed_types(ct, all_nulls, mixed_types_as_string, child_ids, s2))
        children_of(s1) ==
          IF expected_category = "NC_STRUCT"
          THEN construct_fields(ct, ids, all_nulls, mixed_types_as_string, child_ids, 1, ref, s1)
          ELSE IF expected_category # "NC_LIST" \/ child_ids = <<>> THEN s1
          ELSE IF child_of(s1, ref, list_child_name) # {}
          THEN [s1 EXCEPT !.threw =
                  "list child column insertion failed, duplicate column name in the parent"]
          ELSE emplaced([s1 EXCEPT !.children   = @ \cup {<<ref, list_child_name, this_ref>>},
                                   !.order[ref] = Append(@, list_child_name)])
    IN  children_of(initialize_json_columns(ct, s, root, ref, expected_category))

\* experimental::build_tree of a document that is an array of records, with
\* the user's types given as a map of names to schema elements (dtypes)
experimental_build_tree(ct, all_nulls, mixed_types_as_string, prune_columns, dtypes) ==
  LET n     == Len(ct)
      ids   == sort_by_range_begin(ct)
      roots == adj(ct, ids, parent_node_sentinel)
      top_level_list_id  == roots[1]
      root_struct_col_id == IF adj(ct, ids, top_level_list_id) = <<>> THEN -1
                            ELSE adj(ct, ids, top_level_list_id)[1]
      parent_ref == list_child_ref(ct, parent_node_sentinel)
      s0 == [type        |-> [c \in -1..(2 * n) |-> IF c = -1 THEN "ListColumn" ELSE "Unknown"],
             num_rows    |-> [c \in -1..(2 * n) |-> 0],
             children    |-> {<<parent_node_sentinel, list_child_name, parent_ref>>},
             order       |-> [c \in -1..(2 * n) |-> <<>>],
             columns     |-> {<<parent_node_sentinel, parent_node_sentinel>>,
                              <<top_level_list_id, parent_ref>>},
             is_pruned   |-> (IF prune_columns THEN 0..(n - 1) ELSE {})
                               \ {top_level_list_id, root_struct_col_id},
             expected_types |-> [c \in 0..(n - 1) |-> NUM_NODE_CLASSES],
             threw       |-> ""]
      u_schema == [type |-> "STRUCT", child_types |-> dtypes]
      built_tree(s2) ==
      [type        |-> s2.type,
       num_rows    |-> s2.num_rows,
       children    |-> s2.children,
       order       |-> s2.order,
       columns     |-> s2.columns,
       pruned      |-> s2.is_pruned,
       ignore_vals |-> s2.is_pruned,
       cats        |-> [c \in 0..(n - 1) |-> IF s2.expected_types[c] = NUM_NODE_CLASSES
                                             THEN ct[c + 1].category
                                             ELSE s2.expected_types[c]],
       \* is_pruned[root_struct_col_id] of a document without a record is
       \* written before the start of the vector
       sentinel_write |-> root_struct_col_id = -1,
       threw       |-> IF Len(roots) # 1 THEN "Should be 1" ELSE s2.threw]
  IN  built_tree(construct_tree(ct, ids, all_nulls, mixed_types_as_string, top_level_list_id,
                                parent_ref,
                                mark_is_pruned(ct, ids, root_struct_col_id, u_schema, s0)))

\* experimental::make_device_json_column
experimental_make_device_json_column(in, nodes, col_ids, row_offsets, mixed_types_as_string, prune_columns, dtypes) ==
  LET ct        == reduce_to_column_tree(in, nodes, col_ids, row_offsets)
      all_nulls == is_all_nulls_each_column(in, ct, nodes, col_ids)
      scattered(st) ==
        [threw |-> st.threw, ct |-> ct, st |-> st, col_ids |-> col_ids,
         row_offsets |-> row_offsets, prune_columns |-> prune_columns, dtypes |-> dtypes,
         data |-> IF st.threw # "" THEN <<>>
                  ELSE scatter_offsets(nodes, col_ids, row_offsets, st)]
  IN  scattered(experimental_build_tree(ct, all_nulls, mixed_types_as_string,
                                        prune_columns, dtypes))

\* ------------------------------- json_column_to_cudf_column2 (d_json_column)
\* the children of device column c, <<parent, name, child>>
child_columns(st, c) == {e \in st.children : e[1] = c}

\* the struct case without the check of the children's sizes
struct_fails_unchecked(num_rows, kids) ==
  {f \in BOOLEAN :
     IF f THEN \E k \in DOMAIN kids : \E o \in kids[k] : o.failed
     ELSE \A k \in DOMAIN kids : \E o \in kids[k] : ~o.failed}

\* the struct case: whether the conversion of a struct of num_rows rows fails,
\* given the outcomes of its children in column_order; it fails when a child
\* fails or CUDF_EXPECTS(num_rows == child_column->size()) does
struct_fails(num_rows, kids) ==
  {f \in BOOLEAN :
     IF f THEN \E k \in DOMAIN kids : \E o \in kids[k] : o.failed \/ o.size # num_rows
     ELSE \A k \in DOMAIN kids : \E o \in kids[k] : ~o.failed /\ o.size = num_rows}

RECURSIVE d_json_column_to_cudf_column2(_, _)
\* the outcomes of converting device column c: whether the conversion fails and
\* the size of the column it returns otherwise. Reading the child of a list
\* that has none, or a name of column_order that has no column, is undefined:
\* the conversion may fail or go on with whatever it read.
d_json_column_to_cudf_column2(st, c) ==
  LET num_rows == st.num_rows[c]
      both     == {[failed |-> f, size |-> num_rows] : f \in BOOLEAN}
  IN
  CASE st.type[c] = "StringColumn" ->
         \* col_size = json_col.string_offsets.size()
         {[failed |-> FALSE, size |-> num_rows]}
    [] st.type[c] = "StructColumn" ->
         IF \E k \in 1..Len(st.order[c]) : child_of(st, c, st.order[c][k]) = {}
         THEN both
         ELSE LET kids == [k \in 1..Len(st.order[c]) |->
                             d_json_column_to_cudf_column2(
                               st, (CHOOSE e \in child_of(st, c, st.order[c][k]) : TRUE)[3])]
              IN  {[failed |-> f, size |-> num_rows] : f \in struct_fails(num_rows, kids)}
    [] st.type[c] = "ListColumn" ->
         \* num_rows = json_col.child_offsets.size(); make_lists_column(num_rows - 1, ...)
         IF child_columns(st, c) = {}
         THEN both
         ELSE LET first == CHOOSE e \in child_columns(st, c) : TRUE
              IN  {[failed |-> o.failed, size |-> num_rows] :
                     o \in d_json_column_to_cudf_column2(st, first[3])}
    [] OTHER -> {[failed |-> TRUE, size |-> 0]}   \* "Unsupported column type, yet to be implemented"

\* ------------------------------------------------ device string caster
\* Characters are their ASCII codes, output bytes are integers 0..255.
SINGLE_THREAD_THRESHOLD == 128

WARP_THRESHOLD == 1024

\* marks a unicode code point escape sequence
UNICODE_SEQ == 127

\* marks an invalid escape sequence
NON_ESCAPE_CHAR == 126

UNICODE_ESC_PREFIX == 2

UNICODE_HEX_DIGIT_COUNT == 4

NUM_UNICODE_ESC_SEQ_CHARS == UNICODE_ESC_PREFIX + UNICODE_HEX_DIGIT_COUNT

UTF16_HIGH_SURROGATE_BEGIN == 55296

UTF16_HIGH_SURROGATE_END == 56320

UTF16_LOW_SURROGATE_BEGIN == 56320

UTF16_LOW_SURROGATE_END == 57344

backslash_char == 92

\* threads of a warp
warp_size == 32

warps_per_block == 8

\* the character to output for a character that follows a backslash
get_escape_char(escaped_char) ==
  CASE escaped_char = 34  -> 34
    [] escaped_char = 92  -> 92
    [] escaped_char = 47  -> 47
    [] escaped_char = 98  -> 8
    [] escaped_char = 102 -> 12
    [] escaped_char = 110 -> 10
    [] escaped_char = 114 -> 13
    [] escaped_char = 116 -> 9
    [] escaped_char = 117 -> UNICODE_SEQ
    [] OTHER -> NON_ESCAPE_CHAR

\* the value of one hex digit, -1 for any other character
hex_digit(ch) ==
  IF ch >= 48 /\ ch <= 57 THEN ch - 48
  ELSE IF ch >= 65 /\ ch <= 70 THEN (ch - 65) + 10
  ELSE IF ch >= 97 /\ ch <= 102 THEN (ch - 97) + 10
  ELSE -1

\* character i (from 0) of the span str; what lies after the span reads as NUL
char_at(str, i) == IF i >= 0 /\ i < Len(str) THEN str[i + 1] ELSE 0

\* the value of the four hex digits at str[at .. at + 3], -1 if one is no digit
parse_unicode_hex(str, at) ==
  LET d0 == hex_digit(char_at(str, at))
      d1 == hex_digit(char_at(str, at + 1))
      d2 == hex_digit(char_at(str, at + 2))
      d3 == hex_digit(char_at(str, at + 3))
  IN  IF d0 < 0 \/ d1 < 0 \/ d2 < 0 \/ d3 < 0 THEN -1
      ELSE d0 * 4096 + d1 * 256 + d2 * 16 + d3

\* the UTF-8 bytes of a code point; a value that is no code point gives one
\* zero byte
codepoint_to_utf8(unchr) ==
  IF unchr < 0 \/ unchr >= 1114112 THEN <<0>>
  ELSE IF unchr < 128 THEN <<unchr>>
  ELSE IF unchr < 2048 THEN <<192 + (unchr \div 64), 128 + (unchr % 64)>>
  ELSE IF unchr < 65536
  THEN <<224 + (unchr \div 4096), 128 + ((unchr \div 64) % 64), 128 + (unchr % 64)>>
  ELSE <<240 + (unchr \div 262144), 128 + ((unchr \div 4096) % 64),
         128 + ((unchr \div 64) % 64), 128 + (unchr % 64)>>

\* the code point of a UTF-16 surrogate pair
surrogate_pair(hex_val, hex_low_val) ==
  65536 + (hex_val - UTF16_HIGH_SURROGATE_BEGIN) * 1024
        + (hex_low_val - UTF16_LOW_SURROGATE_BEGIN)

is_surrogate_pair(hex_val, hex_low_val) ==
  /\ hex_val >= UTF16_HIGH_SURROGATE_BEGIN /\ hex_val < UTF16_HIGH_SURROGATE_END
  /\ hex_low_val >= UTF16_LOW_SURROGATE_BEGIN /\ hex_low_val < UTF16_LOW_SURROGATE_END

\* string values keep their quote characters
is_string_value(str, options) ==
  /\ Len(str) >= 2
  /\ \/ options.quotechar = 0
     \/ str[1] = options.quotechar /\ str[Len(str)] = options.quotechar

\* One iteration of the loop of process_string over str[.. in_end - 1] (from
\* 0). st holds in_begin, the escape flag, what was written so far and the
\* result once the loop has returned.
process_string_step(str, in_end, st) ==
  LET in_begin     == st.in_begin
      escaped_char == get_escape_char(char_at(str, in_begin))
      hex_begin    == in_begin + 1
      hex_val      == parse_unicode_hex(str, hex_begin)
      next_begin   == hex_begin + UNICODE_HEX_DIGIT_COUNT
      hex_low_val  ==
        IF /\ in_end - next_begin >= NUM_UNICODE_ESC_SEQ_CHARS
           /\ char_at(str, next_begin) = backslash_char
           /\ char_at(str, next_begin + 1) = 117
        THEN parse_unicode_hex(str, next_begin + 2)
        ELSE 0
      go(pos, esc, written) ==
        [in_begin |-> pos, escape |-> esc, out |-> st.out \o written, result |-> "RUNNING"]
      fail == [st EXCEPT !.result = "PARSING_FAILURE"]
  IN
  IF st.result # "RUNNING" THEN st
  ELSE IF in_begin = in_end
  THEN [st EXCEPT !.result = IF st.escape THEN "PARSING_FAILURE" ELSE "PARSING_SUCCESS"]
  ELSE IF ~st.escape
  THEN IF char_at(str, in_begin) = backslash_char
       THEN go(in_begin + 1, TRUE, <<>>)
       ELSE go(in_begin + 1, FALSE, <<char_at(str, in_begin)>>)
  ELSE IF escaped_char = NON_ESCAPE_CHAR THEN fail
  ELSE IF escaped_char # UNICODE_SEQ THEN go(in_begin + 1, FALSE, <<escaped_char>>)
  ELSE IF in_end - hex_begin < UNICODE_HEX_DIGIT_COUNT THEN fail
  ELSE IF hex_val < 0 THEN fail
  ELSE IF is_surrogate_pair(hex_val, hex_low_val)
  THEN go(next_begin + NUM_UNICODE_ESC_SEQ_CHARS, FALSE,
          codepoint_to_utf8(surrogate_pair(hex_val, hex_low_val)))
  ELSE go(next_begin, FALSE, codepoint_to_utf8(hex_val))

RECURSIVE process_string_loop(_, _, _, _)
\* k iterations of the loop, or fewer if it returns earlier
process_string_loop(str, in_end, st, k) ==
  IF k <= 1 THEN process_string_step(str, in_end, st)
  ELSE LET half == process_string_loop(str, in_end, st, k \div 2)
       IN  IF half.result # "RUNNING" THEN half
           ELSE process_string_loop(str, in_end, half, k - (k \div 2))

\* process_string: the bytes written (their number is the returned byte count)
\* and whether parsing succeeded
process_string(str, options) ==
  LET in_begin == IF options.keepquotes THEN 0 ELSE 1
      in_end   == IF options.keepquotes THEN Len(str) ELSE Len(str) - 1
      st       == [in_begin |-> in_begin, escape |-> FALSE, out |-> <<>>,
                   result |-> "RUNNING"]
      done     == process_string_loop(str, in_end, st, (in_end - in_begin) + 1)
  IN  IF ~is_string_value(str, options)
      THEN [out |-> str, result |-> "PARSING_SUCCESS"]
      ELSE [out |-> done.out, result |-> done.result]

\* the transition vectors of the backslash scan are <<state[0], state[1]>>
composite_op(op1, op2) ==
  <<op2[IF op1[1] THEN 2 ELSE 1], op2[IF op1[2] THEN 2 ELSE 1]>>

RECURSIVE SlashScan(_, _, _, _)
\* inclusive scan of curr[lo .. hi] under composite_op, carry being the
\* composition of everything before lo
SlashScan(curr, lo, hi, carry) ==
  IF lo = hi THEN <<composite_op(carry, curr[lo])>>
  ELSE LET mid  == (lo + hi) \div 2
           left == SlashScan(curr, lo, mid, carry)
       IN  left \o SlashScan(curr, mid + 1, hi, left[Len(left)])

RECURSIVE OffsetScan(_, _, _, _)
\* inclusive sums of num[lo .. hi] on top of carry
OffsetScan(num, lo, hi, carry) ==
  IF lo = hi THEN <<carry + num[lo]>>
  ELSE LET mid  == (lo + hi) \div 2
           left == OffsetScan(num, lo, mid, carry)
       IN  left \o OffsetScan(num, mid + 1, hi, left[Len(left)])

RECURSIVE flatten(_, _, _)
\* the concatenation of the sequences ss[lo], ..., ss[hi]
flatten(ss, lo, hi) ==
  IF lo > hi THEN <<>>
  ELSE IF lo = hi THEN ss[lo]
  ELSE LET mid == (lo + hi) \div 2
       IN  flatten(ss, lo, mid) \o flatten(ss, mid + 1, hi)

is_hex(ch) == hex_digit(ch) >= 0

\* What a data race of the block kernel let the threads see in one launch:
\*   "none"          every read saw the value the program order suggests
\*   "error_reduced" error_reduced, which every thread writes, kept the value
\*                   of a thread whose partial sum holds no error
\*   "init_state"    the threads before the last read init_state after the
\*                   last thread wrote the next iteration's value
\*   "last_offset"   the same for last_offset
Races == {"none", "error_reduced", "init_state", "last_offset"}

\* the character thread l of the block reads, and the one before it
lane_c(str, base, l) == IF base + l < Len(str) THEN char_at(str, base + l) ELSE 0

lane_prev_c(str, base, l) ==
  IF base + l > 0 /\ base + l < Len(str) THEN char_at(str, base + l - 1) ELSE 0

\* the transition vector of every thread's character: a backslash leaves the
\* not-escaping state
slash_vectors(str, base, BLOCK_SIZE) ==
  seq_of([l1 \in 1..BLOCK_SIZE |->
            <<base + l1 - 1 < Len(str) /\ lane_c(str, base, l1 - 1) = backslash_char,
              FALSE>>], BLOCK_SIZE)

\* is_escaping_backslash of every thread: its scanned vector at the init_state
\* the thread read
escaping_backslash(BLOCK_SIZE, is_warp, race, init_state, scanned) ==
  seq_of([l1 \in 1..BLOCK_SIZE |->
            scanned[l1][IF (IF ~is_warp /\ race = "init_state" /\ l1 # BLOCK_SIZE
                            THEN scanned[BLOCK_SIZE][IF init_state THEN 2 ELSE 1]
                            ELSE init_state)
                        THEN 2 ELSE 1]], BLOCK_SIZE)

\* the error thread l finds at its character
lane_error(str, base, l, is_escaping_backslash) ==
  /\ base + l < Len(str)
  /\ \/ is_escaping_backslash[l + 1] /\ base + l = Len(str) - 1
     \/ /\ lane_prev_c(str, base, l) = backslash_char
        /\ get_escape_char(lane_c(str, base, l)) = NON_ESCAPE_CHAR
     \/ /\ lane_prev_c(str, base, l) = backslash_char
        /\ lane_c(str, base, l) = 117
        /\ \/ base + l + UNICODE_HEX_DIGIT_COUNT >= Len(str)
           \/ ~is_hex(char_at(str, base + l + 1))
           \/ ~is_hex(char_at(str, base + l + 2))
           \/ ~is_hex(char_at(str, base + l + 3))
           \/ ~is_hex(char_at(str, base + l + 4))

\* character i is the d-th character after the u of a \u
follows_u(str, i, d) ==
  /\ i - d >= 0
  /\ char_at(str, i - d) = backslash_char
  /\ char_at(str, (i - d) + 1) = 117

\* the threads that write nothing: out of bounds, an escaping backslash, or
\* one of the four hex digits of a \u
lane_skip(str, base, BLOCK_SIZE, is_escaping_backslash) ==
  seq_of([l1 \in 1..BLOCK_SIZE |->
            \/ base + l1 - 1 >= Len(str)
            \/ is_escaping_backslash[l1]
            \/ follows_u(str, base + l1 - 1, 2) \/ follows_u(str, base + l1 - 1, 3)
            \/ follows_u(str, base + l1 - 1, 4) \/ follows_u(str, base + l1 - 1, 5)],
         BLOCK_SIZE)

\* the low half a thread at the u of a \u reads after its four hex digits
lane_hex_low_val(str, at) ==
  IF /\ at + 4 + 6 < Len(str)
     /\ char_at(str, at + 1 + 4) = backslash_char
     /\ char_at(str, at + 1 + 5) = 117
  THEN parse_unicode_hex(str, at + 1 + 6)
  ELSE 0

\* the bytes a thread at the u of a \u writes; the low half of a pair and any
\* other low surrogate writes nothing
unicode_bytes(hex_val, hex_low_val) ==
  IF is_surrogate_pair(hex_val, hex_low_val)
  THEN codepoint_to_utf8(surrogate_pair(hex_val, hex_low_val))
  ELSE IF hex_val >= UTF16_LOW_SURROGATE_BEGIN /\ hex_val < UTF16_LOW_SURROGATE_END
  THEN <<>>
  ELSE codepoint_to_utf8(hex_val)

\* the bytes thread l writes
write_char(str, base, l, skip) ==
  IF skip[l + 1] THEN <<>>
  ELSE IF lane_prev_c(str, base, l) # backslash_char THEN <<lane_c(str, base, l)>>
  ELSE IF get_escape_char(lane_c(str, base, l)) # UNICODE_SEQ
  THEN <<get_escape_char(lane_c(str, base, l))>>
  ELSE unicode_bytes(parse_unicode_hex(str, base + l + 1),
                     lane_hex_low_val(str, base + l))

\* where the threads of one iteration write: all after last_offset, or, when
\* the threads before the last read last_offset too late, after its new value
step_writes(BLOCK_SIZE, is_warp, race, init_state, last_offset, written, sums) ==
  [error      |-> FALSE,
   init_state |-> init_state,
   last_offset |-> last_offset + sums[BLOCK_SIZE],
   writes     |->
     IF ~is_warp /\ race = "last_offset"
     THEN << <<last_offset + sums[BLOCK_SIZE], flatten(written, 1, BLOCK_SIZE - 1)>>,
             <<(last_offset + sums[BLOCK_SIZE]) - Len(written[BLOCK_SIZE]),
               written[BLOCK_SIZE]>> >>
     ELSE << <<last_offset, flatten(written, 1, BLOCK_SIZE)>> >>]

\* the offsets of the bytes of one iteration: the scan of their counts
step_offsets(BLOCK_SIZE, is_warp, race, init_state, last_offset, written) ==
  step_writes(BLOCK_SIZE, is_warp, race, init_state, last_offset, written,
              OffsetScan(seq_of([l1 \in 1..BLOCK_SIZE |-> Len(written[l1])], BLOCK_SIZE),
                         1, BLOCK_SIZE, 0))

\* the bytes of one iteration, thread by thread
step_written(str, base, BLOCK_SIZE, is_warp, race, init_state, last_offset, skip) ==
  step_offsets(BLOCK_SIZE, is_warp, race, init_state, last_offset,
               seq_of([l1 \in 1..BLOCK_SIZE |-> write_char(str, base, l1 - 1, skip)],
                      BLOCK_SIZE))

\* the errors of one iteration and, without one, its bytes. init_state is the
\* one carried to the next iteration.
step_errors(str, base, BLOCK_SIZE, is_warp, race, init_state, last_offset,
            is_escaping_backslash) ==
  IF /\ ~(~is_warp /\ race = "error_reduced")
     /\ \E l \in 0..(BLOCK_SIZE - 1) : lane_error(str, base, l, is_escaping_backslash)
  THEN [error |-> TRUE, init_state |-> init_state, last_offset |-> 0, writes |-> <<>>]
  ELSE step_written(str, base, BLOCK_SIZE, is_warp, race, init_state, last_offset,
                    lane_skip(str, base, BLOCK_SIZE, is_escaping_backslash))

\* one iteration once the backslash scan is known: the state the last thread
\* carries over is its own scanned state
step_scanned(str, base, BLOCK_SIZE, is_warp, race, init_state, last_offset, scanned) ==
  step_errors(str, base, BLOCK_SIZE, is_warp, race,
              scanned[BLOCK_SIZE][IF init_state THEN 2 ELSE 1], last_offset,
              escaping_backslash(BLOCK_SIZE, is_warp, race, init_state, scanned))

\* One iteration of the character loop of parse_fn_string_parallel over the
\* BLOCK_SIZE characters of str from char_index base on: whether the threads
\* saw an error, the carried init_state and last_offset, and the bytes written
\* as runs <<offset into d_buffer, bytes>>
string_parallel_step(str, base, BLOCK_SIZE, is_warp, race, init_state, last_offset) ==
  step_scanned(str, base, BLOCK_SIZE, is_warp, race, init_state, last_offset,
               SlashScan(slash_vectors(str, base, BLOCK_SIZE), 1, BLOCK_SIZE,
                         <<FALSE, TRUE>>))

RECURSIVE string_parallel_loop(_, _, _, _, _, _, _, _)
\* the end of one iteration s: an error breaks the loop
string_parallel_next(str, base, BLOCK_SIZE, is_warp, race, writes, s) ==
  IF s.error
  THEN [error |-> TRUE, last_offset |-> 0, writes |-> writes]
  ELSE string_parallel_loop(str, base + BLOCK_SIZE, BLOCK_SIZE, is_warp, race,
                            s.init_state, s.last_offset, writes \o s.writes)

\* the character loop: stops at the first iteration that saw an error
string_parallel_loop(str, base, BLOCK_SIZE, is_warp, race, init_state, last_offset, writes) ==
  IF base >= Len(str)
  THEN [error |-> FALSE, last_offset |-> last_offset, writes |-> writes]
  ELSE string_parallel_next(str, base, BLOCK_SIZE, is_warp, race, writes,
         string_parallel_step(str, base, BLOCK_SIZE, is_warp, race, init_state,
                              last_offset))

\* one string in parse_fn_string_parallel, after the null checks: the bytes it
\* writes, the size it reports and whether it failed
string_parallel(str, is_warp, race, options) ==
  IF ~is_string_value(str, options)
  THEN [error |-> FALSE, last_offset |-> Len(str), writes |-> << <<0, str>> >>]
  ELSE string_parallel_loop(IF options.keepquotes THEN str
                            ELSE SubSeq(str, 2, Len(str) - 1),
                            0, IF is_warp THEN warp_size ELSE warp_size * warps_per_block,
                            is_warp, race, FALSE, 0, <<>>)

\* the options the two callers of parse_data pass: the column names are cast
\* without quote character, the values with the reader's options
options_of(who) ==
  IF who = "names"
  THEN [quotechar |-> 0, keepquotes |-> TRUE, trie_na |-> {}]
  ELSE [quotechar |-> 34, keepquotes |-> FALSE,
        trie_na |-> {<<>>, <<110, 117, 108, 108>>}]

\* what a row becomes once its string is decoded: a failure clears the row's
\* bit and counts one null where there is a null mask, and reports size 0
decoded_row(valid, has_mask, fill, failed, size, writes) ==
  IF failed
  THEN [valid |-> ~has_mask, counted |-> IF has_mask THEN 1 ELSE 0, size |-> 0,
        writes |-> IF fill THEN writes ELSE <<>>]
  ELSE [valid |-> valid, counted |-> 0, size |-> size,
        writes |-> IF fill THEN writes ELSE <<>>]

\* the row of string_parse once process_string returned info
string_parsed(valid, has_mask, fill, info) ==
  decoded_row(valid, has_mask, fill, info.result # "PARSING_SUCCESS", Len(info.out),
              << <<0, info.out>> >>)

\* string_parse without the skip of rows that are null already
string_parse_no_skip(str, valid, has_mask, options, fill) ==
  IF (~fill /\ str \in options.trie_na) /\ has_mask
  THEN [valid |-> FALSE, counted |-> 1, size |-> 0, writes |-> <<>>]
  ELSE string_parsed(valid, has_mask, fill, process_string(str, options))

\* string_parse::operator() on one row. valid is the row's bit of the null
\* mask; without a null mask it stays TRUE. fill tells the pass (d_chars set).
string_parse(str, valid, has_mask, options, fill) ==
  IF has_mask /\ ~valid
  THEN [valid |-> valid, counted |-> 0, size |-> 0, writes |-> <<>>]
  ELSE IF (~fill /\ str \in options.trie_na) /\ has_mask
  THEN [valid |-> FALSE, counted |-> 1, size |-> 0, writes |-> <<>>]
  ELSE string_parsed(valid, has_mask, fill, process_string(str, options))

\* the row of parse_fn_string_parallel once the character loop returned r
parallel_parsed(valid, has_mask, fill, r) ==
  decoded_row(valid, has_mask, fill, r.error, r.last_offset, r.writes)

\* one row in one launch of parse_fn_string_parallel; size is -1 where the
\* launch leaves d_offsets alone
parse_fn_string_parallel(str, valid, has_mask, options, fill, is_warp, race) ==
  IF has_mask /\ ~valid
  THEN [valid |-> valid, counted |-> 0, size |-> 0, writes |-> <<>>]
  ELSE IF (is_warp /\ Len(str) > WARP_THRESHOLD) \/ (~is_warp /\ Len(str) <= WARP_THRESHOLD)
  THEN [valid |-> valid, counted |-> 0, size |-> -1, writes |-> <<>>]
  ELSE IF (~fill /\ str \in options.trie_na) /\ has_mask
  THEN [valid |-> FALSE, counted |-> 1, size |-> 0, writes |-> <<>>]
  ELSE parallel_parsed(valid, has_mask, fill, string_parallel(str, is_warp, race, options))

RECURSIVE sum_range(_, _, _)
\* f[lo] + ... + f[hi]
sum_range(f, lo, hi) ==
  IF lo > hi THEN 0
  ELSE IF lo = hi THEN f[lo]
  ELSE LET mid == (lo + hi) \div 2
       IN  sum_range(f, lo, mid) + sum_range(f, mid + 1, hi)

\* the last of the runs <<offset, bytes>> that covers byte p, 0 for none
last_run_at(runs, p) ==
  LET K == {k \in 1..Len(runs) : runs[k][1] <= p /\ p < runs[k][1] + Len(runs[k][2])}
  IN  IF K = {} THEN 0 ELSE CHOOSE k \in K : \A k2 \in K : k2 <= k

\* the byte of run k at p, -1 without a run
byte_of_run(runs, k, p) == IF k = 0 THEN -1 ELSE runs[k][2][(p - runs[k][1]) + 1]

\* the buffer of so many bytes after the runs were written one after another
buffer_of(bytes, runs) ==
  [chars |-> seq_of([p \in 1..bytes |-> byte_of_run(runs, last_run_at(runs, p - 1), p - 1)],
                    bytes),
   bad_write |-> \E k \in 1..Len(runs) :
                   /\ Len(runs[k][2]) > 0
                   /\ (runs[k][1] < 0 \/ runs[k][1] + Len(runs[k][2]) > bytes)]

\* the character buffer after the rows wrote their runs at their offsets, the
\* rows in the order given; -1 is a byte nobody wrote
chars_written(bytes, offsets, writes, order) ==
  buffer_of(bytes,
    flatten(seq_of([k \in 1..Len(order) |->
              seq_of([j \in 1..Len(writes[order[k]]) |->
                        <<offsets[order[k]] + writes[order[k]][j][1],
                          writes[order[k]][j][2]>>], Len(writes[order[k]]))],
              Len(order)), 1, Len(order)))

\* a row after the warp launch w and the block launch b
both_launches(w, b) ==
  [valid   |-> b.valid,
   counted |-> w.counted + b.counted,
   size    |-> IF b.size # -1 THEN b.size ELSE w.size,
   writes  |-> w.writes \o b.writes]

\* the block launch sees the null mask the warp launch left
block_after_warp(str, has_mask, options, fill, race, w) ==
  both_launches(w, parse_fn_string_parallel(str, w.valid, has_mask, options, fill,
                                            FALSE, race))

\* the longest string of the column
max_length_of(strs) ==
  IF Len(strs) = 0 THEN 0
  ELSE CHOOSE m \in {Len(strs[i]) : i \in 1..Len(strs)} :
         \A i \in 1..Len(strs) : Len(strs[i]) <= m

\* One pass of the caster over every row of a string column: the one-thread
\* functor when every string is short, else the warp launch followed by the
\* block launch. null_mask is <<>> for an empty mask buffer.
caster_rows(strs, null_mask, options, fill, race, max_length) ==
  seq_of([i \in 1..Len(strs) |->
            IF max_length < SINGLE_THREAD_THRESHOLD
            THEN string_parse(strs[i], null_mask = <<>> \/ null_mask[i],
                              null_mask # <<>>, options, fill)
            ELSE block_after_warp(strs[i], null_mask # <<>>, options, fill, race,
                   parse_fn_string_parallel(strs[i], null_mask = <<>> \/ null_mask[i],
                                            null_mask # <<>>, options, fill, TRUE,
                                            race))], Len(strs))

caster_pass(strs, null_mask, options, fill, race) ==
  caster_rows(strs, null_mask, options, fill, race, max_length_of(strs))

\* the offsets, null mask and null count after the size pass left sized
sized_column(col_size, null_mask, null_count, sized) ==
  [offsets    |-> <<0>> \o (IF col_size = 0 THEN <<>>
                             ELSE OffsetScan(seq_of([i \in 1..col_size |-> sized[i].size],
                                                    col_size), 1, col_size, 0)),
   null_mask  |-> IF null_mask = <<>> THEN <<>>
                  ELSE seq_of([i \in 1..col_size |-> sized[i].valid], col_size),
   null_count |-> null_count
                    + sum_range(seq_of([i \in 1..col_size |-> sized[i].counted],
                                       col_size), 1, col_size)]

\* the first half of parse_data for a string column: the size pass and the
\* offsets made of the sizes
size_pass(strs, null_mask, null_count, options, race) ==
  sized_column(Len(strs), null_mask, null_count,
               caster_pass(strs, null_mask, options, FALSE, race))

\* the string column made of the offsets and the character buffer
string_column(col_size, sized, filled, buffer) ==
  [offsets    |-> sized.offsets,
   chars      |-> buffer.chars,
   bad_write  |-> buffer.bad_write,
   \* the runs <<offset from d_offsets[idx], bytes>> each row wrote
   writes     |-> seq_of([i \in 1..col_size |-> filled[i].writes], col_size),
   null_mask  |-> IF sized.null_mask = <<>> THEN <<>>
                  ELSE seq_of([i \in 1..col_size |-> filled[i].valid], col_size),
   null_count |-> sized.null_count
                    + sum_range(seq_of([i \in 1..col_size |-> filled[i].counted],
                                       col_size), 1, col_size)]

\* the column after the fill pass left filled
filled_column(col_size, sized, order, filled) ==
  string_column(col_size, sized, filled,
                chars_written(sized.offsets[col_size + 1], sized.offsets,
                              seq_of([i \in 1..col_size |-> filled[i].writes], col_size),
                              order))

\* the second half: the fill pass into the allocated characters and the
\* string column made of the parts. The rows write in the order given.
fill_pass(strs, sized, options, race, order) ==
  filled_column(Len(strs), sized, order,
                caster_pass(strs, sized.null_mask, options, TRUE, race))

\* parse_data for a string column; race_size and race_fill are what the races
\* of the block kernel showed in the two passes
parse_data(strs, null_mask, null_count, options, race_size, race_fill, order) ==
  fill_pass(strs, size_pass(strs, null_mask, null_count, options, race_size),
            options, race_fill, order)

\* trim_quotes: the span without its first and last character where both are
\* the quote character
trim_quotes(str, quotechar) ==
  IF Len(str) >= 2 /\ str[1] = quotechar /\ str[Len(str)] = quotechar
  THEN SubSeq(str, 2, Len(str) - 1)
  ELSE str

RECURSIVE decimal_value(_, _)
\* the number the first k decimal digits of str spell
decimal_value(str, k) ==
  IF k = 0 THEN 0 ELSE 10 * decimal_value(str, k - 1) + (str[k] - 48)

\* ConvertFunctor for an integer column: the span parses where it is a run of
\* decimal digits
ConvertFunctor(str) ==
  IF Len(str) > 0 /\ \A k \in 1..Len(str) : str[k] \in 48..57
  THEN [is_parsed |-> TRUE, value |-> decimal_value(str, Len(str))]
  ELSE [is_parsed |-> FALSE, value |-> -1]

\* the row of a fixed-width column once ConvertFunctor returned r
converted_row(r) ==
  [valid |-> r.is_parsed, counted |-> IF r.is_parsed THEN 0 ELSE 1,
   converted |-> TRUE, value |-> r.value]

\* fixed_width_row without the test for the null spellings
fixed_width_row_no_na(str, valid, options) ==
  IF ~valid
  THEN [valid |-> FALSE, counted |-> 0, converted |-> FALSE, value |-> -1]
  ELSE converted_row(ConvertFunctor(trim_quotes(str, options.quotechar)))

\* the per-row lambda of parse_data for a fixed-width column; converted tells
\* whether the row reached ConvertFunctor
fixed_width_row(str, valid, options) ==
  IF ~valid
  THEN [valid |-> FALSE, counted |-> 0, converted |-> FALSE, value |-> -1]
  ELSE IF str \in options.trie_na
  THEN [valid |-> FALSE, counted |-> 1, converted |-> FALSE, value |-> -1]
  ELSE converted_row(ConvertFunctor(trim_quotes(str, options.quotechar)))

\* the fixed-width column made of the rows
fixed_width_column(col_size, null_count, rows) ==
  [null_mask  |-> seq_of([i \in 1..col_size |-> rows[i].valid], col_size),
   null_count |-> null_count
                    + sum_range(seq_of([i \in 1..col_size |-> rows[i].counted],
                                       col_size), 1, col_size),
   data       |-> seq_of([i \in 1..col_size |-> rows[i].value], col_size),
   converted  |-> {i \in 1..col_size : rows[i].converted}]

\* parse_data for a column that is not a string column (an integer column)
parse_data_fixed_width(strs, null_mask, null_count, options) ==
  fixed_width_column(Len(strs), null_count,
    seq_of([i \in 1..Len(strs) |-> fixed_width_row(strs[i], null_mask[i], options)],
           Len(strs)))

\* ------------------------------------------- specification of the parser
\* no stage is running, nothing is queued on a stream, no kernel is launched
AuxIdle ==
  /\ jcols = <<>>
  /\ fetch = [launched |-> FALSE]
  /\ hand_over = [fn |-> "none", pc |-> 0, same_stream |-> FALSE, legacy |-> FALSE,
                  queue |-> <<>>, early |-> {}]

RedIdle ==
  /\ node_run = <<>>
  /\ reduced = "none"

StrIdle ==
  /\ caller = "values"
  /\ str_rows = <<>>
  /\ pad = 0
  /\ size_result = <<>>
  /\ casted = <<>>

TokInit ==
  /\ AuxIdle
  /\ input = <<>>
  /\ phase = "read"
  /\ top_of_stack = <<>>
  /\ tokens = <<>>
  /\ tree = [nodes |-> <<>>, threw |-> FALSE]
  /\ outcome = "none"
  /\ records = <<>>
  /\ is_enabled_mixed_types_as_string = FALSE
  /\ dcols = <<>>
  /\ StrIdle
  /\ RedIdle

\* the openings of longer texts: a string that opens with an escaped quote,
\* and an object that opens with a field name and its colon
Openings == { <<"\"", "\\", "\"">>, <<"{", "\"", "\"", ":">> }

\* the most bytes of a text: MaxLen, and MaxLen more behind an opening
text_budget(in) ==
  IF \E o \in Openings : Len(in) >= Len(o) /\ SubSeq(in, 1, Len(o)) = o
  THEN Len(CHOOSE o \in Openings : Len(in) >= Len(o) /\ SubSeq(in, 1, Len(o)) = o) + MaxLen
  ELSE MaxLen

\* one more byte of JSON text arrives
Feed ==
  /\ phase = "read"
  /\ Len(input) < text_budget(input)
  /\ \E c \in Symbols : input' = Append(input, c)
  /\ UNCHANGED <<phase, top_of_stack, tokens, tree, outcome, colVars, strVars, redVars, auxVars>>

\* the reader runs on the text: stack context, tokens, node tree, columns
Parse ==
  /\ phase = "read"
  /\ phase' = "parsed"
  /\ top_of_stack' = get_stack_context(input)
  /\ tokens' = get_token_stream(input)
  /\ tree' = get_tree_representation(input)
  /\ outcome' = parse_nested_json2(input)
  /\ UNCHANGED <<input, colVars, strVars, redVars, auxVars>>

TokNext == Feed \/ Parse

SpecTok == TokInit /\ [][TokNext]_vars

\* ---------------------------------- specification of the column builder
\* what field "a" of a record holds: nothing (the record is {}), a number, a
\* string, the null literal, an object with a number or an object in field
\* "c", a list of one number, of none, of two, of a number and an object or of
\* a number and a string, the fields "b" and "a" with a number each, or nothing
\* where a value must stand (a syntax error)
Kinds ==
  {"none", "val", "str", "null", "struct", "structS", "list", "list0", "list2", "listM", "listS",
   "ba", "err"}

record_text(kind) ==
  CASE kind = "none"    -> <<"{", "}">>
    [] kind = "val"     -> <<"{", "\"", "a", "\"", ":", "1", "}">>
    [] kind = "str"     -> <<"{", "\"", "a", "\"", ":", "\"", "x", "\"", "}">>
    [] kind = "null"    -> <<"{", "\"", "a", "\"", ":", "n", "u", "l", "l", "}">>
    [] kind = "struct"  -> <<"{", "\"", "a", "\"", ":", "{", "\"", "c", "\"", ":", "1", "}", "}">>
    [] kind = "structS" -> <<"{", "\"", "a", "\"", ":", "{", "\"", "c", "\"", ":", "{", "}", "}", "}">>
    [] kind = "list"    -> <<"{", "\"", "a", "\"", ":", "[", "1", "]", "}">>
    [] kind = "ba"      -> <<"{", "\"", "b", "\"", ":", "1", ",", "\"", "a", "\"", ":", "1", "}">>
    [] kind = "list0"   -> <<"{", "\"", "a", "\"", ":", "[", "]", "}">>
    [] kind = "list2"   -> <<"{", "\"", "a", "\"", ":", "[", "1", ",", "1", "]", "}">>
    [] kind = "listM"   -> <<"{", "\"", "a", "\"", ":", "[", "1", ",", "{", "}", "]", "}">>
    [] kind = "listS"   -> <<"{", "\"", "a", "\"", ":", "[", "1", ",", "\"", "x", "\"", "]", "}">>
    [] kind = "err"     -> <<"{", "\"", "a", "\"", ":", "}">>
    [] kind = "dup"     -> <<"{", "\"", "a", "\"", ":", "1", ",", "\"", "a", "\"", ":", "2", "2", "}">>
    [] kind = "dupL"    -> <<"{", "\"", "a", "\"", ":", "[", "1", "]", ",",
                             "\"", "a", "\"", ":", "[", "1", ",", "1", "]", "}">>

RECURSIVE records_text(_, _)
records_text(recs, k) ==
  IF k = 0 THEN <<>>
  ELSE IF k = 1 THEN record_text(recs[1])
  ELSE records_text(recs, k - 1) \o <<",">> \o record_text(recs[k])

\* the JSON text of the document: an array of records
document_text(recs) == <<"[">> \o records_text(recs, Len(recs)) \o <<"]">>

\* what the two reads at index -1 may return; is_mixed_type_column[-1] is
\* read only when forced_as_string_column[-1] read as true
SentinelReads ==
  {[forced |-> FALSE, mixed |-> FALSE],
   [forced |-> TRUE,  mixed |-> FALSE],
   [forced |-> TRUE,  mixed |-> TRUE]}

ColInit ==
  /\ AuxIdle
  /\ records = <<>>
  /\ is_enabled_mixed_types_as_string \in BOOLEAN
  /\ input = document_text(<<>>)
  /\ phase = "read"
  /\ top_of_stack = <<>>
  /\ tokens = <<>>
  /\ tree = [nodes |-> <<>>, threw |-> FALSE]
  /\ outcome = "none"
  /\ dcols = <<>>
  /\ StrIdle
  /\ RedIdle

\* the document gets one more record
AddRecord ==
  /\ phase = "read"
  /\ Len(records) < MaxRecords
  /\ \E kind \in Kinds :
       /\ records' = Append(records, kind)
       /\ input' = document_text(Append(records, kind))
  /\ UNCHANGED <<phase, top_of_stack, tokens, tree, outcome, is_enabled_mixed_types_as_string, dcols,
                 strVars, redVars, auxVars>>

\* the reader builds the device columns of the document; the reads of
\* forced_as_string_column[-1] and is_mixed_type_column[-1] for the root
\* column are outside the arrays and may return either value
MakeColumns ==
  /\ phase = "read"
  /\ phase' = "built"
  /\ LET tr          == get_tree_representation(input)
         col_ids     == records_orient_tree_traversal(input, tr.nodes)
         row_offsets == row_offsets_of(tr.nodes, col_ids)
     IN  /\ ~tr.threw
         /\ tree' = tr
         /\ \E sentinel_read \in SentinelReads :
              dcols' = make_device_json_column(input, tr.nodes, col_ids, row_offsets,
                         is_enabled_mixed_types_as_string, sentinel_read)
  /\ UNCHANGED <<input, top_of_stack, tokens, outcome, records, is_enabled_mixed_types_as_string,
                 strVars, redVars, auxVars>>

\* the document is read by parse_nested_json2 (the Parse of the tokenizer
\* specification) or by the device column builder
ColNext == AddRecord \/ MakeColumns \/ Parse

SpecCol == ColInit /\ [][ColNext]_vars

\* ------------------------------ specification of the pruning builder
\* a type that is not nested
leaf_type == [type |-> "INT64", child_types |-> <<>>]

\* the types a user asks for: field a or b as a number, a as a struct with a
\* number c, a as a list with or without the type of its elements, or nothing
Dtypes ==
  { <<>>,
    << <<(<<"a">>), leaf_type>> >>,
    << <<(<<"b">>), leaf_type>> >>,
    << <<(<<"a">>), [type |-> "STRUCT", child_types |-> << <<(<<"c">>), leaf_type>> >>]>> >>,
    << <<(<<"a">>), [type |-> "LIST", child_types |-> <<>>]>> >>,
    << <<(<<"a">>), [type |-> "LIST", child_types |-> << <<list_child_name, leaf_type>> >>]>> >> }

\* the reader builds the device columns of the document with the user's types,
\* with column pruning on or off; the write of is_pruned[-1] for a document
\* without a record is outside the vector and may end the reader
MakePrunedColumns ==
  /\ phase = "read"
  /\ Len(records) <= MaxPrunedRecords
  /\ phase' = "pruned"
  /\ LET tr          == get_tree_representation(input)
         col_ids     == records_orient_tree_traversal(input, tr.nodes)
         row_offsets == row_offsets_of(tr.nodes, col_ids)
     IN  /\ ~tr.threw
         /\ tree' = tr
         /\ \E prune_columns \in BOOLEAN, dtypes \in Dtypes, crashed \in BOOLEAN :
              LET ended(built_columns) ==
                    /\ crashed => built_columns.st.sentinel_write
                    /\ dcols' = IF crashed
                                THEN [built_columns EXCEPT !.threw = "write outside is_pruned"]
                                ELSE built_columns
              IN  ended(experimental_make_device_json_column(input, tr.nodes, col_ids,
                          row_offsets, is_enabled_mixed_types_as_string, prune_columns, dtypes))
  /\ UNCHANGED <<input, top_of_stack, tokens, outcome, records, is_enabled_mixed_types_as_string,
                 strVars, redVars, auxVars>>

\* the reader builds the device columns of the document with build_tree, with
\* column pruning on and the user's types; what get_path_data_type answers
\* for the record itself is either answer
MakeColumnsPruned ==
  /\ phase = "read"
  /\ Len(records) <= MaxPrunedRecords
  /\ phase' = "pruned_built"
  /\ LET tr          == get_tree_representation(input)
         col_ids     == records_orient_tree_traversal(input, tr.nodes)
         row_offsets == row_offsets_of(tr.nodes, col_ids)
     IN  /\ ~tr.threw
         /\ tree' = tr
         /\ \E sentinel_read \in SentinelReads, dtypes \in Dtypes, row_typed \in BOOLEAN :
              dcols' = make_device_json_column_pruned(input, tr.nodes, col_ids, row_offsets,
                         is_enabled_mixed_types_as_string, sentinel_read, dtypes, row_typed)
  /\ UNCHANGED <<input, top_of_stack, tokens, outcome, records, is_enabled_mixed_types_as_string,
                 strVars, redVars, auxVars>>

PruneNext == AddRecord \/ MakePrunedColumns \/ MakeColumnsPruned

SpecPrune == ColInit /\ [][PruneNext]_vars

\* ------------------------------------ specification of the string caster
\* Pieces the strings of a batch are made of: a, \n, \\, a lone backslash,
\* \x, \uD83D, \uDE00, \u00, null and the digit 7
Pieces ==
  { <<97>>, <<92, 110>>, <<92, 92>>, <<92>>, <<92, 120>>,
    <<92, 117, 68, 56, 51, 68>>, <<92, 117, 68, 69, 48, 48>>,
    <<92, 117, 48, 48>>, <<110, 117, 108, 108>>, <<55>> }

\* Paddings of the first string: the longest that keeps an empty quoted string
\* below each threshold; the column names are padded to the warp launch only
Pads(who) ==
  IF who = "names" THEN {SINGLE_THREAD_THRESHOLD - 1}
  ELSE {SINGLE_THREAD_THRESHOLD - 1, WARP_THRESHOLD - 1}

\* The rows a caller passes: column names are bare spans without a null mask;
\* values are quoted strings, bare literals, or rows that are null already
StringKinds(who) ==
  IF who = "names" THEN {"literal"} ELSE {"string", "literal", "null"}

RECURSIVE padding(_)
\* n times the character a
padding(n) ==
  IF n = 0 THEN <<>>
  ELSE IF n = 1 THEN <<97>>
  ELSE padding(n \div 2) \o padding(n - (n \div 2))

\* the span of row i of the batch
span_of(batch, first_pad, i) ==
  LET body == (IF i = 1 THEN padding(first_pad) ELSE <<>>)
                \o flatten(batch[i].pieces, 1, Len(batch[i].pieces))
  IN  CASE batch[i].kind = "null"    -> <<>>
        [] batch[i].kind = "string"  -> <<34>> \o body \o <<34>>
        [] batch[i].kind = "literal" -> body

str_spans(batch, first_pad) ==
  seq_of([i \in 1..Len(batch) |-> span_of(batch, first_pad, i)], Len(batch))

\* the null mask handed to parse_data: none for the column names
mask_of(who, batch) ==
  IF who = "names" THEN <<>>
  ELSE seq_of([i \in 1..Len(batch) |-> batch[i].kind # "null"], Len(batch))

\* the null count handed to parse_data
null_count_of(who, batch) ==
  IF who = "names" THEN 0
  ELSE Cardinality({i \in 1..Len(batch) : batch[i].kind = "null"})

\* pieces and padding used by the batch
pieces_used(batch, first_pad) ==
  sum_range(seq_of([i \in 1..Len(batch) |-> Len(batch[i].pieces)], Len(batch)),
            1, Len(batch))
    + (IF first_pad > 0 THEN 1 ELSE 0)

\* the races of the block kernel show only where it has a string to decode
RacesOf(spans) ==
  IF \E i \in 1..Len(spans) : Len(spans[i]) > WARP_THRESHOLD THEN Races ELSE {"none"}

\* the orders in which n rows may write
Orders(n) ==
  {o \in [1..n -> 1..n] : \A i \in 1..n, j \in 1..n : o[i] = o[j] => i = j}

StrInit ==
  /\ AuxIdle
  /\ caller \in {"names", "values"}
  /\ str_rows = <<>>
  /\ pad = 0
  /\ size_result = <<>>
  /\ casted = <<>>
  /\ phase = "read"
  /\ input = <<>>
  /\ top_of_stack = <<>>
  /\ tokens = <<>>
  /\ tree = [nodes |-> <<>>, threw |-> FALSE]
  /\ outcome = "none"
  /\ records = <<>>
  /\ is_enabled_mixed_types_as_string = FALSE
  /\ dcols = <<>>
  /\ RedIdle

\* the batch gets one more row
NewString ==
  /\ phase = "read"
  /\ Len(str_rows) < MaxStrings
  /\ \E kind \in StringKinds(caller) :
       str_rows' = Append(str_rows, [kind |-> kind, pieces |-> <<>>])
  /\ UNCHANGED <<caller, pad, size_result, casted, phase, tokVars, colVars, redVars, auxVars>>

\* the last row of the batch gets one more piece
AddPiece ==
  /\ phase = "read"
  /\ str_rows # <<>>
  /\ str_rows[Len(str_rows)].kind # "null"
  /\ pieces_used(str_rows, pad) < MaxPieces
  /\ \E piece \in Pieces :
       str_rows' = [str_rows EXCEPT ![Len(str_rows)].pieces = Append(@, piece)]
  /\ UNCHANGED <<caller, pad, size_result, casted, phase, tokVars, colVars, redVars, auxVars>>

\* the first row, still empty, is padded to reach a parallel launch
PadString ==
  /\ phase = "read"
  /\ Len(str_rows) = 1
  /\ str_rows[1].kind # "null"
  /\ str_rows[1].pieces = <<>>
  /\ pad = 0
  /\ pieces_used(str_rows, pad) < MaxPieces
  /\ \E n \in Pads(caller) : pad' = n
  /\ UNCHANGED <<caller, str_rows, size_result, casted, phase, tokVars, colVars, redVars, auxVars>>

\* parse_data up to the offsets: the size pass
SizePass ==
  /\ phase = "read"
  /\ phase' = "sized"
  /\ LET spans == str_spans(str_rows, pad)
     IN  \E race \in RacesOf(spans) :
           size_result' = size_pass(spans, mask_of(caller, str_rows), null_count_of(caller, str_rows),
                              options_of(caller), race)
  /\ UNCHANGED <<caller, str_rows, pad, casted, tokVars, colVars, redVars, auxVars>>

\* parse_data from the offsets on: the fill pass and the string column
FillPass ==
  /\ phase = "sized"
  /\ phase' = "cast"
  /\ LET spans == str_spans(str_rows, pad)
     IN  \E race \in RacesOf(spans), order \in Orders(Len(str_rows)) :
           casted' = fill_pass(spans, size_result, options_of(caller), race,
                               seq_of(order, Len(str_rows)))
  /\ UNCHANGED <<caller, str_rows, pad, size_result, tokVars, colVars, redVars, auxVars>>

\* parse_data on the batch for an integer column; the values always come
\* with a null mask
CastNumbers ==
  /\ phase = "read"
  /\ caller = "values"
  /\ phase' = "numbers"
  /\ casted' = parse_data_fixed_width(str_spans(str_rows, pad), mask_of(caller, str_rows),
                                      null_count_of(caller, str_rows), options_of(caller))
  /\ UNCHANGED <<caller, str_rows, pad, size_result, tokVars, colVars, redVars, auxVars>>

StrNext == NewString \/ AddPiece \/ PadString \/ SizePass \/ FillPass \/ CastNumbers

SpecStr == StrInit /\ [][StrNext]_vars

\* ------------------------------ specification of the node tree builder
\* The values a document is made of: a two-character literal, a string, a
\* string of brackets, a string with an escaped quote before a bracket or a
\* brace, a string with an escaped backslash, an object, an object whose field name
\* holds a bracket, a list, and an empty list
ValueTexts ==
  { <<"x", "x">>,
    <<"\"", "x", "\"">>,
    <<"\"", "{", "]", "\"">>,
    <<"\"", "\\", "\"", "[", "\"">>,
    <<"\"", "\\", "\"", "{", "\"">>,
    <<"\"", "\\", "\\", "\"">>,
    <<"{", "\"", "x", "\"", ":", "x", "}">>,
    <<"{", "\"", "]", "\"", ":", "x", "}">>,
    <<"[", "x", "]">>,
    <<"[", "]">> }

\* The documents to start from: an empty list, or a value alone at the root
RootTexts == { <<"[", "]">>, <<"x", "x">>, <<"\"", "x", "\"">> }

\* the list document with one more element
with_element(doc, text) ==
  SubSeq(doc, 1, Len(doc) - 1)
    \o (IF Len(doc) = 2 THEN <<>> ELSE <<",">>) \o text \o <<"]">>

TreeInit ==
  /\ AuxIdle
  /\ input \in RootTexts
  /\ phase = "read"
  /\ top_of_stack = <<>>
  /\ tokens = <<>>
  /\ tree = [nodes |-> <<>>, threw |-> FALSE]
  /\ outcome = "none"
  /\ records = <<>>
  /\ is_enabled_mixed_types_as_string = FALSE
  /\ dcols = <<>>
  /\ StrIdle
  /\ RedIdle

\* the list document gets one more element
AddValue ==
  /\ phase = "read"
  /\ input[1] = "["
  /\ \E text \in ValueTexts :
       /\ Len(with_element(input, text)) <= MaxText
       /\ input' = with_element(input, text)
  /\ UNCHANGED <<phase, top_of_stack, tokens, tree, outcome, colVars, strVars, redVars, auxVars>>

\* the document goes through the stack context, the tokenizer and the node
\* tree builder
BuildTree ==
  /\ phase = "read"
  /\ phase' = "tree"
  /\ top_of_stack' = get_stack_context(input)
  /\ tokens' = get_token_stream(input)
  /\ tree' = get_tree_representation(input)
  /\ UNCHANGED <<input, outcome, colVars, strVars, redVars, auxVars>>

TreeNext == AddValue \/ BuildTree

SpecTree == TreeInit /\ [][TreeNext]_vars

\* ------------------------- specification of the category reduction
\* the node categories
NodeCategories == {"NC_STRUCT", "NC_LIST", "NC_FN", "NC_STR", "NC_VAL", "NC_ERR"}

\* the categories of a run of nodes
categories_of(run) == seq_of([k \in 1..Len(run) |-> run[k][2]], Len(run))

RECURSIVE category_groupings(_)
\* what thrust::reduce_by_key may return for a run of categories: it combines
\* neighbouring partial results with the unify lambda in any grouping
category_groupings(cats) ==
  IF Len(cats) = 1 THEN {cats[1]}
  ELSE UNION {{unify(a, b) : a \in category_groupings(SubSeq(cats, 1, k)),
                            b \in category_groupings(SubSeq(cats, k + 1, Len(cats)))} :
              k \in 1..(Len(cats) - 1)}

RECURSIVE pair_groupings(_)
\* the same for the runs of <<row offset, category>> that
\* max_row_offsets_col_categories reduces
pair_groupings(run) ==
  IF Len(run) = 1 THEN {run[1]}
  ELSE UNION {{max_row_offsets_col_categories(a, b) :
                 a \in pair_groupings(SubSeq(run, 1, k)),
                 b \in pair_groupings(SubSeq(run, k + 1, Len(run)))} :
              k \in 1..(Len(run) - 1)}

RedInit ==
  /\ AuxIdle
  /\ node_run = <<>>
  /\ reduced = "none"
  /\ phase = "read"
  /\ input = <<>>
  /\ top_of_stack = <<>>
  /\ tokens = <<>>
  /\ tree = [nodes |-> <<>>, threw |-> FALSE]
  /\ outcome = "none"
  /\ records = <<>>
  /\ is_enabled_mixed_types_as_string = FALSE
  /\ dcols = <<>>
  /\ StrIdle

\* the column id gets one more node, in the next row
AddNode ==
  /\ phase = "read"
  /\ Len(node_run) < MaxRun
  /\ \E category \in NodeCategories :
       node_run' = Append(node_run, <<Len(node_run), category>>)
  /\ UNCHANGED <<reduced, phase, tokVars, colVars, strVars, auxVars>>

\* reduce_by_key over the run, with the unify lambda of gather_column_info and
\* with max_row_offsets_col_categories, each in some grouping
ReduceByKey ==
  /\ phase = "read"
  /\ node_run # <<>>
  /\ phase' = "reduced"
  /\ \E category \in category_groupings(categories_of(node_run)),
        pair \in pair_groupings(node_run) :
       reduced' = [category |-> category, pair |-> pair]
  /\ UNCHANGED <<node_run, tokVars, colVars, strVars, auxVars>>

RedNext == AddNode \/ ReduceByKey

SpecRed == RedInit /\ [][RedNext]_vars

\* ------------------------------------------------ claims on the tokenizer
\* The lexical state before byte i under the JSON string rule the DFA's states
\* document: a backslash inside a string escapes the next character.
string_rule(in) ==
  LET f[i \in 1..(Len(in) + 1)] ==
        IF i = 1 THEN "out"
        ELSE LET p == f[i - 1]
                 c == in[i - 1]
             IN  IF p = "out" THEN (IF c = "\"" THEN "in" ELSE "out")
                 ELSE IF p = "esc" THEN "in"
                 ELSE IF c = "\\" THEN "esc"
                 ELSE IF c = "\"" THEN "out"
                 ELSE "in"
  IN  f

\* byte i lies between a string's opening quote and its real closing quote
inside_string(in, i) ==
  LET f == string_rule(in)
  IN  f[i] # "out" /\ ~(f[i] = "in" /\ in[i] = "\"")

\* byte i is the real closing quote of a string
closes_string(in, i) == string_rule(in)[i] = "in" /\ in[i] = "\""

\* the opening quote of the string that byte e closes
opening_quote(in, e) ==
  CHOOSE s \in 1..(e - 1) :
    /\ string_rule(in)[s] = "out" /\ in[s] = "\""
    /\ \A k \in (s + 1)..(e - 1) : inside_string(in, k)

\* C1: brackets and braces inside a string literal, also one that holds escaped
\* quotes or escaped backslashes, are never structural: they push and pop nothing,
\* and the byte after the string's closing quote has the stack context of the
\* string's opening quote.
C1_InStringBracketsNotStructural ==
  phase = "parsed" =>
    /\ \A i \in 1..Len(input) :
         inside_string(input, i) => JSONToStackOp(stack_ops(input)[i]) = "READ"
    /\ \A e \in 1..(Len(input) - 1) :
         closes_string(input, e) =>
           top_of_stack[e + 1] = top_of_stack[opening_quote(input, e)]

\* the tokenizer was in its Error state at some point of the text
reached_error_state ==
  \E i \in 1..(Len(input) + 1) : pda_states(input, top_of_stack)[i] = "PD_ERR"

\* C2: when the tokenizer reaches its Error state anywhere in the input, the whole
\* parse fails and no table is returned.
C2_ErrorStateFailsParse ==
  (phase = "parsed" /\ reached_error_state) => outcome = "error"

\* the tokenizer's state when the text ends
final_pda_state == pda_states(input, top_of_stack)[Len(input) + 1]

\* C3: an input that ends inside an unterminated string literal or field name is
\* reported as a parse error by the tokenizer stage (an error token is emitted).
C3_UnterminatedStringIsError ==
  (phase = "parsed" /\ final_pda_state \in {"PD_STR", "PD_SCE", "PD_FLN", "PD_FNE"})
    => \E k \in 1..Len(tokens) : tokens[k].tok = "TK_ERR"
\* ------------------------------------------- claims on the column builder
built == phase = "built"

\* the column ids of the column tree
ColIds == 0..(Len(dcols.ct) - 1)

category_of(c) == dcols.ct[c + 1].category

\* columns x and y are different columns with the same parent column and name
same_slot(x, y) ==
  LET cats == [c \in ColIds |-> category_of(c)]
      nx   == name_and_parent_index(dcols.ct, cats, x)
      ny   == name_and_parent_index(dcols.ct, cats, y)
  IN  /\ x # y
      /\ category_of(x) \notin {"NC_FN", "NC_ERR"}
      /\ category_of(y) \notin {"NC_FN", "NC_ERR"}
      /\ ~nx.fail /\ ~ny.fail
      /\ nx.name = ny.name /\ nx.parent = ny.parent

RECURSIVE descends_from(_, _)
\* column c lies below column y in the column tree
descends_from(c, y) ==
  LET p == dcols.ct[c + 1].parent
  IN  p # parent_node_sentinel /\ (p = y \/ descends_from(p, y))

\* x and y ended up as one String column
one_string_column(x, y) ==
  /\ has_column(dcols.st, x) /\ has_column(dcols.st, y)
  /\ column_at(dcols.st, x) = column_at(dcols.st, y)
  /\ dcols.st.type[column_at(dcols.st, x)] = "StringColumn"

\* every node of column id c is a valid row of its column that holds the
\* node's text
holds_text_of(c) ==
  \A i \in 1..Len(tree.nodes) :
    dcols.col_ids[i] = c =>
      LET d == column_at(dcols.st, c)
          r == dcols.row_offsets[i]
      IN  /\ <<d, r>> \in dcols.data.validity
          /\ r < dcols.st.num_rows[d]
          /\ dcols.data.string_offsets[d][r + 1] = tree.nodes[i].range_begin
          /\ dcols.data.string_lengths[d][r + 1] =
               tree.nodes[i].range_end - tree.nodes[i].range_begin

\* C4: with coercion disabled, a column whose unified category is Error makes
\* the whole parse fail; it is not dropped silently.
C4_ErrorColumnFailsParse ==
  (built /\ ~is_enabled_mixed_types_as_string
         /\ \E c \in ColIds : category_of(c) = "NC_ERR")
    => dcols.threw # ""

\* C5: with coercion disabled, a field that holds a number in one record and an
\* object in another makes the parse fail with a type-conflict error.
C5_NumberVsObjectIsFatal ==
  (built /\ ~is_enabled_mixed_types_as_string
         /\ \E x \in ColIds, y \in ColIds :
              /\ same_slot(x, y)
              /\ category_of(x) = "NC_VAL" /\ category_of(y) = "NC_STRUCT"
         /\ \E i \in 1..Len(records) : records[i] = "val")
    => dcols.threw # ""

slot_parent_kept(x) ==
  LET cats == [c \in ColIds |-> category_of(c)]
      p    == name_and_parent_index(dcols.ct, cats, x).parent
  IN  /\ p # parent_node_sentinel
      /\ p \notin dcols.st.ignore_vals /\ p \notin dcols.st.mixed
      /\ has_column(dcols.st, p)

\* every value of leaf column x is a null literal
all_nulls_column(x) ==
  is_all_nulls_each_column(input, dcols.ct, tree.nodes, dcols.col_ids)[x + 1]

\* C5 (amended): with coercion disabled, a field that holds a number in one
\* record and an object in another is not an error: the leaf column is ignored
\* and, where the enclosing column is materialised, the field is a Struct
\* column; the parse fails only when some field of the document is a Struct in
\* one record and a List in another.
C5_NestedWins ==
  (built /\ ~is_enabled_mixed_types_as_string) =>
    \A x \in ColIds, y \in ColIds :
      (/\ same_slot(x, y)
       /\ category_of(x) = "NC_VAL" /\ category_of(y) = "NC_STRUCT"
       /\ \E i \in 1..Len(records) : records[i] = "val")
      => IF dcols.threw # ""
         THEN \E u \in ColIds, z \in ColIds :
                /\ same_slot(u, z)
                /\ category_of(u) = "NC_STRUCT" /\ category_of(z) = "NC_LIST"
         ELSE /\ x \in dcols.st.ignore_vals
              /\ slot_parent_kept(y) =>
                   /\ has_column(dcols.st, y)
                   /\ dcols.st.type[column_at(dcols.st, y)] = "StructColumn"
                   /\ y \notin dcols.st.ignore_vals

\* [{"a":1},{"a":{"c":1}}] was built with coercion disabled: no error, a is a
\* Struct column and the number is ignored
C5_Witness ==
  /\ built /\ ~is_enabled_mixed_types_as_string /\ dcols.threw = ""
  /\ records = <<"val", "struct">>
  /\ \E x \in ColIds, y \in ColIds :
       /\ same_slot(x, y)
       /\ category_of(x) = "NC_VAL" /\ category_of(y) = "NC_STRUCT"
       /\ x \in dcols.st.ignore_vals
       /\ slot_parent_kept(y)
       /\ dcols.st.type[column_at(dcols.st, y)] = "StructColumn"

\* x is the one leaf column of its parent and name
only_leaf_of_slot(x) ==
  ~\E z \in ColIds : same_slot(x, z) /\ category_of(z) \in {"NC_VAL", "NC_STR"}

C7_StructVsList ==
  built =>
    \A x \in ColIds, y \in ColIds :
      (/\ same_slot(x, y)
       /\ category_of(x) = "NC_STRUCT" /\ category_of(y) = "NC_LIST")
      => IF is_enabled_mixed_types_as_string
         THEN dcols.threw = "" /\ one_string_column(x, y)
         ELSE dcols.threw # ""

\* the nodes that belong to device column d: their column id refers to d and
\* is not ignored
nodes_of(d) ==
  {i \in 1..Len(tree.nodes) :
     /\ dcols.col_ids[i] \notin dcols.st.ignore_vals
     /\ has_column(dcols.st, dcols.col_ids[i])
     /\ column_at(dcols.st, dcols.col_ids[i]) = d}

\* C8: after materialisation row r of a column is valid if and only if some
\* non-ignored node of that column has row offset r.
C8_ValidIffNodeAtRow ==
  (built /\ dcols.threw = "") =>
    \A e \in dcols.st.columns :
      e[2] # parent_node_sentinel =>
        \A r \in 0..Len(tree.nodes) :
          (r < dcols.st.num_rows[e[2]] /\ <<e[2], r>> \in dcols.data.validity)
            <=> \E i \in nodes_of(e[2]) : dcols.row_offsets[i] = r

\* the document [{},{"a":1}] was built: column a has two rows, null and valid
C8_Witness ==
  /\ built /\ dcols.threw = ""
  /\ records = <<"none", "val">>
  /\ \E e \in dcols.st.children :
       /\ e[2] = <<"a">>
       /\ dcols.st.num_rows[e[3]] = 2
       /\ <<e[3], 0>> \notin dcols.data.validity
       /\ <<e[3], 1>> \in dcols.data.validity
       /\ \E i \in nodes_of(e[3]) : dcols.row_offsets[i] = 1
\* ------------------------------------------- claims on the string caster
cast == phase = "cast"

\* the bytes of row i of a string column
row_chars(col, i) == SubSeq(col.chars, col.offsets[i] + 1, col.offsets[i + 1])

\* a sequence without its element i
without(seq, i) == SubSeq(seq, 1, i - 1) \o SubSeq(seq, i + 1, Len(seq))

\* row i went into the caster as a valid string value whose escapes are
\* malformed by the left-to-right rule: a backslash at the end, an unrecognised
\* escape character, or \u without four hex digits
malformed_row(i) ==
  LET span == span_of(str_rows, pad, i)
  IN  /\ str_rows[i].kind # "null"
      /\ span \notin options_of(caller).trie_na
      /\ is_string_value(span, options_of(caller))
      /\ process_string(span, options_of(caller)).result = "PARSING_FAILURE"

\* the column the caster returns for the batch without row i
column_without(i) ==
  parse_data(without(str_spans(str_rows, pad), i), without(mask_of(caller, str_rows), i),
             null_count_of(caller, without(str_rows, i)), options_of(caller),
             "none", "none", [k \in 1..(Len(str_rows) - 1) |-> k])

\* C9: a row whose escapes are malformed becomes null and is counted once in
\* the null count, and every other row comes out as it does without that row.
C9_MalformedRowOnlyNull ==
  cast =>
    \A i \in 1..Len(str_rows) :
      malformed_row(i) =>
        /\ casted.null_mask # <<>>
        /\ ~casted.null_mask[i]
        /\ casted.null_count = Cardinality({k \in 1..Len(str_rows) : ~casted.null_mask[k]})
        /\ ~casted.bad_write
        /\ \A j \in 1..Len(str_rows) :
             j # i =>
               LET k == IF j < i THEN j ELSE j - 1
               IN  /\ casted.null_mask[j] = column_without(i).null_mask[k]
                   /\ row_chars(casted, j) = row_chars(column_without(i), k)

\* the escape \uDE00: a low surrogate
low_surrogate_piece == <<92, 117, 68, 69, 48, 48>>

\* row i went into the caster as a valid quoted string with a low surrogate
\* escape that no high surrogate escape precedes
orphan_low_surrogate_row(i) ==
  /\ str_rows[i].kind = "string"
  /\ \E k \in 1..Len(str_rows[i].pieces) :
       /\ str_rows[i].pieces[k] = low_surrogate_piece
       /\ k > 1 => str_rows[i].pieces[k - 1] \in { <<97>>, <<92, 110>>, <<92, 92>> }

\* C10: a row with a low surrogate escape that no high surrogate precedes
\* becomes null, whichever way its string is decoded.
C10_OrphanLowSurrogateIsNull ==
  cast =>
    \A i \in 1..Len(str_rows) :
      orphan_low_surrogate_row(i) => ~casted.null_mask[i]

\* the whole batch went through parse_data for an integer column
numbers == phase = "numbers"

\* row i went into the caster valid, with a span that is one of the configured
\* null spellings
null_spelling_row(i) ==
  /\ str_rows[i].kind # "null"
  /\ span_of(str_rows, pad, i) \in options_of(caller).trie_na

\* C11: a row whose raw span is one of the configured null spellings becomes
\* null, and nothing is decoded or converted for it: in a string column the
\* size pass already clears its bit and the row has no characters, in an integer
\* column the row never reaches the conversion.
C11_NullSpellingIsNull ==
  \A i \in 1..Len(str_rows) :
    null_spelling_row(i) =>
      /\ cast => /\ casted.null_mask # <<>>
                 /\ ~size_result.null_mask[i]
                 /\ ~casted.null_mask[i]
                 /\ row_chars(casted, i) = <<>>
      /\ numbers => /\ ~casted.null_mask[i]
                    /\ i \notin casted.converted
                    /\ casted.data[i] = -1

\* the rows null and 7 were cast to integers: the first is null and was not
\* converted, the second was converted to 7
C11_Witness ==
  /\ numbers
  /\ Len(str_rows) = 2
  /\ null_spelling_row(1)
  /\ span_of(str_rows, pad, 1) = <<110, 117, 108, 108>>
  /\ ~casted.null_mask[1] /\ 1 \notin casted.converted
  /\ casted.null_mask[2] /\ casted.converted = {2} /\ casted.data[2] = 7
  /\ casted.null_count = 1

\* the rows whose bit is cleared in a null mask
null_rows(null_mask) == {i \in 1..Len(null_mask) : ~null_mask[i]}

\* C12: the caster leaves a row that is null already alone: a row that came in
\* null, or that the size pass nulled, is still null after the fill pass, has
\* no characters, and is not counted again, so after either pass the null
\* count is the number of cleared bits.
C12_NullRowCountedOnce ==
  (cast /\ casted.null_mask # <<>>) =>
    /\ size_result.null_count = Cardinality(null_rows(size_result.null_mask))
    /\ casted.null_count = Cardinality(null_rows(casted.null_mask))
    /\ \A i \in 1..Len(str_rows) :
         (str_rows[i].kind = "null" \/ ~size_result.null_mask[i]) =>
           /\ ~size_result.null_mask[i]
           /\ ~casted.null_mask[i]
           /\ row_chars(casted, i) = <<>>

\* a row that came in null and a row the size pass nulled for its lone
\* backslash went through the fill pass: two nulls, counted twice in all
C12_Witness ==
  /\ cast /\ caller = "values"
  /\ Len(str_rows) = 2
  /\ str_rows[1].kind = "null"
  /\ str_rows[2] = [kind |-> "string", pieces |-> << <<92>> >>]
  /\ null_rows(size_result.null_mask) = {1, 2}
  /\ null_rows(casted.null_mask) = {1, 2}
  /\ casted.null_count = 2

\* what a decode path returns for one string: whether the row stays valid and
\* the bytes it holds
path_output(failed, bytes) ==
  [valid |-> ~failed, bytes |-> IF failed THEN <<>> ELSE bytes]

\* the one-thread path on a string
single_thread_output(str, options) ==
  path_output(process_string(str, options).result # "PARSING_SUCCESS",
              process_string(str, options).out)

\* the bytes a parallel decode wrote
parallel_bytes(r) == buffer_of(r.last_offset, r.writes).chars

\* the one-warp path (is_warp) or the one-block path on a string
parallel_output(str, is_warp, race, options) ==
  path_output(string_parallel(str, is_warp, race, options).error,
              parallel_bytes(string_parallel(str, is_warp, race, options)))

\* C13: for every string and the same options the one-thread path, the
\* one-warp path and the one-block path (its stores taking the order the code
\* intends) give the same bytes, the same length and the same valid or null
\* outcome.
C13_ThreePathsAgree ==
  cast =>
    \A i \in 1..Len(str_rows) :
      str_rows[i].kind # "null" =>
        /\ single_thread_output(span_of(str_rows, pad, i), options_of(caller))
             = parallel_output(span_of(str_rows, pad, i), TRUE, "none", options_of(caller))
        /\ parallel_output(span_of(str_rows, pad, i), FALSE, "none", options_of(caller))
             = parallel_output(span_of(str_rows, pad, i), TRUE, "none", options_of(caller))

\* ------------------------------------- claims on the node tree builder
\* the tree of the document was built
tree_built == phase = "tree"

\* byte i lies outside every string literal and is no quote
outside_string(in, i) == string_rule(in)[i] = "out" /\ in[i] # "\""

\* the string literals of the text by the JSON string rule, as the ranges
\* [begin, end) between their quotes, counted from 0
expected_texts(in) ==
  {<<opening_quote(in, e), e - 1>> : e \in {k \in 1..Len(in) : closes_string(in, k)}}

\* the literals of the text: the longest runs of other characters outside the
\* strings, as ranges [begin, end) counted from 0
expected_values(in) ==
  {r \in (0..Len(in)) \X (0..Len(in)) :
     /\ r[1] < r[2]
     /\ \A k \in (r[1] + 1)..r[2] : outside_string(in, k) /\ in[k] = "x"
     /\ r[1] > 0 => ~(outside_string(in, r[1]) /\ in[r[1]] = "x")
     /\ r[2] < Len(in) => ~(outside_string(in, r[2] + 1) /\ in[r[2] + 1] = "x")}

\* the opening brackets and braces outside the strings
expected_brackets(in) ==
  {k \in 1..Len(in) : outside_string(in, k) /\ in[k] \in {"{", "["}}

\* the ranges of the nodes of the given categories
node_ranges(categories) ==
  {<<tree.nodes[k].range_begin, tree.nodes[k].range_end>> :
     k \in {j \in 1..Len(tree.nodes) : tree.nodes[j].category \in categories}}

\* C14: for a valid JSON document the String and FieldName nodes have exactly
\* the ranges between the quotes of its string literals, the Value nodes
\* exactly the ranges of its literals, and there is no node besides these and
\* one per bracket or brace outside the strings: brackets inside a string
\* change no range and make no node.
C14_NodeRangesExact ==
  tree_built =>
    /\ ~tree.threw
    /\ node_ranges({"NC_STR", "NC_FN"}) = expected_texts(input)
    /\ node_ranges({"NC_VAL"}) = expected_values(input)
    /\ Len(tree.nodes) = Cardinality(expected_texts(input))
                           + Cardinality(expected_values(input))
                           + Cardinality(expected_brackets(input))

\* the node ids of the tree, counted from 0; node id k is tree.nodes[k + 1]
NodeIds == 0..(Len(tree.nodes) - 1)

\* the nodes whose parent is the sentinel
root_nodes == {i \in NodeIds : tree.nodes[i + 1].parent = parent_node_sentinel}

\* every node below a root has an earlier node as parent, one level above it
parents_precede ==
  \A i \in NodeIds \ root_nodes :
    /\ tree.nodes[i + 1].parent \in NodeIds
    /\ tree.nodes[i + 1].parent < i
    /\ tree.nodes[i + 1].level = tree.nodes[tree.nodes[i + 1].parent + 1].level + 1

\* C15: in the node tree built from any token stream exactly one node, the
\* root, has the sentinel parent, and every other node has a parent with a
\* smaller id, one level above it.
C15_ForestInvariant ==
  (phase = "parsed" /\ ~tree.threw) =>
    /\ Cardinality(root_nodes) = 1
    /\ parents_precede

\* -------------------------------- claims on the category reduction
\* the run in the order o
permuted(run, o) == seq_of([k \in 1..Len(run) |-> run[o[k]]], Len(run))

\* C16: the unification of categories is commutative, and reducing a run of
\* the categories of one column in any permutation and any grouping gives the
\* same category (and, with the row offsets, the same pair).
C16_UnifyOrderIndependent ==
  /\ \A a \in NodeCategories, b \in NodeCategories :
       /\ unify(a, b) = unify(b, a)
       /\ max_row_offsets_col_categories(<<0, a>>, <<1, b>>)
            = max_row_offsets_col_categories(<<1, b>>, <<0, a>>)
  /\ phase = "reduced" =>
       \A o \in Orders(Len(node_run)) :
         /\ category_groupings(categories_of(permuted(node_run, o))) = {reduced.category}
         /\ pair_groupings(permuted(node_run, o)) = {reduced.pair}

\* a value, a struct and a string of one column were reduced to a struct
C16_Witness ==
  /\ phase = "reduced"
  /\ categories_of(node_run) = <<"NC_VAL", "NC_STRUCT", "NC_STR">>
  /\ reduced = [category |-> "NC_STRUCT", pair |-> <<2, "NC_STRUCT">>]

\* ------------------------------------------------ claims on the offsets
\* the device columns of the built tree
device_columns == {e[2] : e \in dcols.st.columns} \ {parent_node_sentinel}

non_decreasing(a) == \A k \in 1..(Len(a) - 1) : a[k] <= a[k + 1]

last_of(a) == a[Len(a)]

\* the nodes written as children of the rows of list column d
children_written(d) ==
  {i \in 1..Len(tree.nodes) :
     /\ tree.nodes[i].parent # parent_node_sentinel
     /\ (tree.nodes[i].parent + 1) \in nodes_of(d)}

\* the characters of the nodes written to string column d
characters_written(d) ==
  LET s == SeqOfSet(nodes_of(d))
  IN  sum_range([k \in 1..Len(s) |-> tree.nodes[s[k]].range_end - tree.nodes[s[k]].range_begin],
                1, Len(s))

\* the offsets of every String and List column do not decrease
offsets_monotonic ==
  \A d \in device_columns :
    /\ dcols.st.type[d] = "StringColumn" => non_decreasing(dcols.data.string_offsets[d])
    /\ dcols.st.type[d] = "ListColumn" => non_decreasing(dcols.data.child_offsets[d])

\* the last offset of every List column is the number of its children
list_offsets_end_at_children ==
  \A d \in device_columns :
    dcols.st.type[d] = "ListColumn" =>
      last_of(dcols.data.child_offsets[d]) = Cardinality(children_written(d))

struct_columns == {d \in device_columns : dcols.st.type[d] = "StructColumn"}

\* the built tree with the row count of device column d set to n
with_num_rows(d, n) == [dcols.st EXCEPT !.num_rows[d] = n]

\* C18: every child column of a materialised Struct column has exactly the
\* row count of the struct, and the conversion of a struct one of whose
\* children has another size fails instead of returning the struct.
C18_StructChildrenSameSize ==
  (built /\ dcols.threw = "") =>
    \A s \in struct_columns :
      \A e \in child_columns(dcols.st, s) :
        /\ (\E o \in d_json_column_to_cudf_column2(dcols.st, s) : ~o.failed) =>
             \A o \in d_json_column_to_cudf_column2(dcols.st, e[3]) :
               ~o.failed => o.size = dcols.st.num_rows[s]
        /\ \A n \in 0..(MaxRecords + 1) :
             n # dcols.st.num_rows[s] =>
               \A o \in d_json_column_to_cudf_column2(with_num_rows(e[3], n), s) : o.failed

\* the document [{"a":{"c":1}},{},{"a":{"c":1}}] was built and converted:
\* the struct a and its child c have three rows each
C18_Witness ==
  /\ built /\ dcols.threw = ""
  /\ records = <<"struct", "none", "struct">>
  /\ \E s \in struct_columns : \E e \in child_columns(dcols.st, s) :
       /\ e[2] = <<"c">>
       /\ dcols.st.num_rows[s] = 3
       /\ d_json_column_to_cudf_column2(dcols.st, s) = {[failed |-> FALSE, size |-> 3]}
       /\ d_json_column_to_cudf_column2(dcols.st, e[3]) = {[failed |-> FALSE, size |-> 3]}

\* ------------------------------------------- claims on the column order
RECURSIVE first_names(_, _)
\* the names of names[1..k] in the order of their first appearance
first_names(names, k) ==
  IF k = 0 THEN <<>>
  ELSE LET prev == first_names(names, k - 1)
       IN  IF \E j \in 1..Len(prev) : prev[j] = names[k] THEN prev
           ELSE Append(prev, names[k])

\* the field names of the objects of column id s in the order of their first
\* appearance in the input
fields_of(col_ids, s) ==
  LET fn == SeqOfSet({i \in 1..Len(tree.nodes) :
                        /\ tree.nodes[i].category = "NC_FN"
                        /\ tree.nodes[i].parent # parent_node_sentinel
                        /\ col_ids[tree.nodes[i].parent + 1] = s})
  IN  first_names([k \in 1..Len(fn) |-> node_name(input, tree.nodes[fn[k]])], Len(fn))

\* no record of the document has a syntax error
valid_records == \A k \in 1..Len(records) : records[k] # "err"

\* the column ids and the column tree parse_nested_json2 made of the document
parsed_col_ids == records_orient_tree_traversal(input, tree.nodes)

parsed_columns == make_json_column2(gather_column_info(input, tree.nodes, parsed_col_ids))

\* C19: the children of every struct column of the table parse_nested_json2
\* returns for a valid document, the columns of the table among them, are in the
\* order of the first appearance of their field names in the input, each name
\* once.
C19_FirstInsertionOrder ==
  (phase = "parsed" /\ valid_records /\ outcome = "table") =>
    \A s \in parsed_columns.columns :
      parsed_columns.type[s] = "StructColumn" =>
        parsed_columns.order[s] = fields_of(parsed_col_ids, s)

\* -------------------------------------------------- claims on pruning
\* the nodes of column id c
nodes_in(c) == {i \in 1..Len(tree.nodes) : dcols.col_ids[i] = c}

\* C20: with column pruning enabled a column marked pruned and all of its
\* descendants are skipped: none of them is a column of the device column
\* tree and no scatter pass writes anything for one of their nodes.
C20_PrunedColumnsSkipped ==
  (phase = "pruned" /\ dcols.threw = "" /\ dcols.prune_columns) =>
    \A p \in dcols.st.pruned :
      \A d \in {p} \cup offspring(dcols.ct, p) :
        /\ ~has_column(dcols.st, d)
        /\ nodes_in(d) \cap dcols.data.nodes_written = {}

\* ------------------------------------------- claims on the error state
\* the tokens emitted on the transition that reads byte i
tokens_at(i) == SelectSeq(tokens, LAMBDA t : t.idx = i - 1)

\* the tokenizer is in its Error state before it reads byte i
in_error_before(i) == pda_states(input, top_of_stack)[i] = "PD_ERR"

\* C21: once the tokenizer has entered the Error state it stays in Error for
\* every further input symbol and emits an Error token on each of those
\* transitions.
C21_ErrorStickyAndEmits ==
  phase = "parsed" =>
    \A i \in 1..Len(input) :
      in_error_before(i) =>
        /\ in_error_before(i + 1)
        /\ \E k \in 1..Len(tokens_at(i)) : tokens_at(i)[k].tok = "TK_ERR"

\* C21 (amended): once the tokenizer has entered the Error state it stays in
\* Error for every further input symbol and emits no token on those
\* transitions; the transition that enters the Error state emits one Error
\* token and nothing else, so a text has at most one Error token, the last
\* token of its stream.
C21_ErrorStickyAndSilent ==
  phase = "parsed" =>
    /\ \A k \in 1..Len(tokens) : tokens[k].tok = "TK_ERR" => k = Len(tokens)
    /\ \A i \in 1..Len(input) :
         /\ in_error_before(i) => in_error_before(i + 1) /\ tokens_at(i) = <<>>
         /\ (~in_error_before(i) /\ in_error_before(i + 1)) =>
              tokens_at(i) = <<[tok |-> "TK_ERR", idx |-> i - 1]>>
    /\ Cardinality({k \in 1..Len(tokens) : tokens[k].tok = "TK_ERR"}) <= 1

\* a text entered the Error state on its second byte and went on for two more
C21_Witness ==
  /\ phase = "parsed"
  /\ Len(input) = 4
  /\ ~in_error_before(2) /\ in_error_before(3) /\ in_error_before(5)
  /\ tokens[Len(tokens)] = [tok |-> "TK_ERR", idx |-> 1]

\* ------------------------------------------- claims on the token nesting
RECURSIVE nested_from(_, _, _)
\* the tokens from the k-th on nest properly over the open Begin tokens: each
\* End token closes the last open Begin token, of its kind and not after it
nested_from(toks, k, open) ==
  IF k > Len(toks) THEN TRUE
  ELSE IF toks[k].tok \in {"TK_BOS", "TK_BOL"}
  THEN nested_from(toks, k + 1, Append(open, toks[k]))
  ELSE IF toks[k].tok \in {"TK_EOS", "TK_EOL"}
  THEN /\ open # <<>>
       /\ open[Len(open)].tok = (IF toks[k].tok = "TK_EOS" THEN "TK_BOS" ELSE "TK_BOL")
       /\ open[Len(open)].idx <= toks[k].idx
       /\ nested_from(toks, k + 1, SubSeq(open, 1, Len(open) - 1))
  ELSE nested_from(toks, k + 1, open)

\* C22: in the token stream of any input the StructBegin/StructEnd and
\* ListBegin/ListEnd tokens are properly nested: each End token closes the
\* most recent Begin token that is still open, that Begin is of the same
\* kind, and the End token's byte offset is not below the Begin token's.
C22_BeginEndNested ==
  phase = "parsed" => nested_from(tokens, 1, <<>>)

\* ------------------------------------- claims on well-formed documents
\* C23: for every well-formed JSON document (a literal, a string, or a list of
\* literals, strings with brackets and escape sequences, objects, lists and
\* empty lists) the tokenizer never enters the Error state and emits no Error
\* token.
C23_WellFormedNoError ==
  tree_built =>
    /\ \A i \in 1..(Len(input) + 1) : ~in_error_before(i)
    /\ \A k \in 1..Len(tokens) : tokens[k].tok # "TK_ERR"

\* ------------------------------------------- claims on the field names
\* the FieldName nodes of the tree
field_name_nodes == {i \in NodeIds : tree.nodes[i + 1].category = "NC_FN"}

\* the nodes whose parent is node i
child_nodes(i) == {j \in NodeIds : tree.nodes[j + 1].parent = i}

\* C24: the field-name marker on the parent stack is popped as soon as the
\* next node that is no field name completes, so every FieldName node is the
\* parent of exactly one node, a value, string, struct or list, never of two.
C24_FieldNameHasOneChild ==
  (phase = "parsed" /\ ~tree.threw) =>
    \A i \in field_name_nodes :
      /\ Cardinality(child_nodes(i)) = 1
      /\ \A j \in child_nodes(i) :
           tree.nodes[j + 1].category \in {"NC_VAL", "NC_STR", "NC_STRUCT", "NC_LIST"}

\* C24 (amended): every FieldName node is the parent of at most one node,
\* never of two: of none when it is the last node of the tree, and else of
\* the node that follows it, which is a value, string, struct, list or error
\* node, one level below it.
C24_FieldNameHasNextAsChild ==
  (phase = "parsed" /\ ~tree.threw) =>
    \A i \in field_name_nodes :
      /\ child_nodes(i) = {i + 1} \cap NodeIds
      /\ \A j \in child_nodes(i) :
           /\ tree.nodes[j + 1].category # "NC_FN"
           /\ tree.nodes[j + 1].level = tree.nodes[i + 1].level + 1

\* an object with two field names: the first is followed by its value and
\* then by the second, which is the last node
C24_Witness ==
  /\ phase = "parsed" /\ ~tree.threw
  /\ \E i, k \in field_name_nodes :
       /\ i + 2 = k
       /\ child_nodes(i) = {i + 1}
       /\ tree.nodes[k + 1].parent = tree.nodes[i + 1].parent
       /\ child_nodes(k) = {}

\* -------------------------------------------- claims on the token merge
\* the tokens that become nodes
node_tokens == {k \in 1..Len(tokens) : is_node(tokens[k].tok)}

\* C25: a Begin-of-string, Begin-of-value or Begin-of-field-name token is
\* merged only with a following token of its own End kind; any other token
\* behind it, an Error token for one, is processed as a token of its own, so
\* every token that stands for a node yields a node and every Error token
\* yields an Error node at its byte.
C25_OnlyMatchingEndMerged ==
  (phase = "parsed" /\ ~tree.threw) =>
    /\ Len(tree.nodes) = Cardinality(node_tokens)
    /\ \A k \in 1..Len(tokens) :
         tokens[k].tok = "TK_ERR" =>
           \E i \in NodeIds : /\ tree.nodes[i + 1].category = "NC_ERR"
                              /\ tree.nodes[i + 1].range_begin = tokens[k].idx

\* ------------------------------------- claims on the rows of list children
\* the List columns of the column tree
list_columns == {p \in ColIds : category_of(p) = "NC_LIST"}

\* the immediate child columns of column p, in increasing order
child_columns_of(p) == SeqOfSet({c \in ColIds : dcols.ct[c + 1].parent = p})

\* the largest row offset of the nodes of column c, before the reduction
\* hands a list's rows down to its children
own_max_row_offset(c) ==
  LET offs == {dcols.row_offsets[k] : k \in {j \in 1..Len(tree.nodes) : dcols.col_ids[j] = c}}
  IN  CHOOSE m \in offs : \A x \in offs : x <= m

\* the siblings' own largest row offsets
sibling_offsets(p) ==
  [j \in 1..Len(child_columns_of(p)) |-> own_max_row_offset(child_columns_of(p)[j])]

\* C26: after the column tree reduction all immediate child columns of the
\* same List column report the same max_row_offsets, the maximum over those
\* siblings, in whatever order the atomic maximum updates are applied.
C26_ListChildrenShareMax ==
  built =>
    \A p \in list_columns :
      \A j \in 1..Len(child_columns_of(p)) :
        /\ \A i \in 1..Len(child_columns_of(p)) :
             sibling_offsets(p)[i] <= dcols.ct[child_columns_of(p)[j] + 1].max_row_offsets
        /\ \E i \in 1..Len(child_columns_of(p)) :
             sibling_offsets(p)[i] = dcols.ct[child_columns_of(p)[j] + 1].max_row_offsets
        /\ \A o \in Orders(Len(child_columns_of(p))) :
             fetch_max(permuted(sibling_offsets(p), o), Len(child_columns_of(p)))
               = dcols.ct[child_columns_of(p)[j] + 1].max_row_offsets

\* a list of a number and an object: the Value column ends at row 0 and the
\* Struct column at row 1, and both report 1
C26_Witness ==
  /\ built
  /\ \E p \in list_columns :
       /\ Len(child_columns_of(p)) = 2
       /\ sibling_offsets(p) = <<0, 1>>
       /\ \A j \in 1..2 : dcols.ct[child_columns_of(p)[j] + 1].max_row_offsets = 1

\* ------------------------------------ claims on two leaves of one name
\* x and y are leaf columns of the same parent and name, and y arrives second
second_leaf(ct, x, y) ==
  LET cats == [c \in 0..(Len(ct) - 1) |-> ct[c + 1].category]
      nx   == name_and_parent_index(ct, cats, x)
      ny   == name_and_parent_index(ct, cats, y)
      ids  == sort_by_range_begin(ct)
      at(c) == CHOOSE k \in 1..Len(ids) : ids[k] = c
  IN  /\ x # y
      /\ cats[x] \in {"NC_VAL", "NC_STR"} /\ cats[y] \in {"NC_VAL", "NC_STR"}
      /\ ~nx.fail /\ ~ny.fail
      /\ nx.name = ny.name /\ nx.parent = ny.parent
      /\ at(x) < at(y)

\* the column tree parse_nested_json2 reduced the document to
parsed_tree == gather_column_info(input, tree.nodes, parsed_col_ids)

\* C27: when a second leaf column arrives for a parent and name that already
\* hold a leaf column, the existing column stays in the tree, the new column
\* is marked ignored and no validity bit, offset or length of one of its nodes
\* is scattered.
C27_SecondLeafIgnored ==
  /\ (built /\ dcols.threw = "") =>
       \A x \in ColIds, y \in ColIds :
         (second_leaf(dcols.ct, x, y) /\ slot_parent_kept(x)) =>
           /\ has_column(dcols.st, x) /\ x \notin dcols.st.ignore_vals
           /\ y \in dcols.st.ignore_vals
           /\ \A i \in nodes_in(y) : i \notin dcols.data.rows_written
  /\ (phase = "parsed" /\ valid_records /\ outcome = "table") =>
       \A x \in 0..(Len(parsed_tree) - 1), y \in 0..(Len(parsed_tree) - 1) :
         second_leaf(parsed_tree, x, y) =>
           /\ x \in parsed_columns.columns /\ x \notin parsed_columns.ignore_vals
           /\ y \in parsed_columns.ignore_vals

\* a Struct or List column has the parent and name of column x
nested_in_slot(x) ==
  \E z \in ColIds : same_slot(x, z) /\ category_of(z) \in {"NC_STRUCT", "NC_LIST"}

\* a Struct or List column of the parent and name of column y arrives before y
nested_before(y) ==
  LET ids   == sort_by_range_begin(dcols.ct)
      at(c) == CHOOSE k \in 1..Len(ids) : ids[k] = c
  IN  \E z \in ColIds : /\ same_slot(y, z)
                        /\ category_of(z) \in {"NC_STRUCT", "NC_LIST"}
                        /\ at(z) < at(y)

\* C27 (amended): in the device column builder a second leaf column of a parent
\* and name that hold a leaf column and no nested column when it arrives is
\* ignored, with no validity bit, offset or length of one of its nodes
\* scattered (an element of a list still marks the offsets of the list), and
\* the existing column stays unless a nested column of that name arrives
\* later, when coercion is disabled or one of the two columns holds null
\* literals only; with coercion enabled and a value in both, the two become
\* one String column that holds the text of the nodes of both. In make_json_column2 the Value column of the
\* two is the one ignored and the String column the one kept, whichever
\* arrives first.
C27_SecondLeafIgnoredOrMerged ==
  /\ (built /\ dcols.threw = "") =>
       \A x \in ColIds, y \in ColIds :
         (second_leaf(dcols.ct, x, y) /\ slot_parent_kept(x) /\ ~nested_before(y)) =>
           IF /\ is_enabled_mixed_types_as_string
              /\ ~all_nulls_column(x) /\ ~all_nulls_column(y)
           THEN /\ one_string_column(x, y)
                /\ holds_text_of(x) /\ holds_text_of(y)
                /\ y \notin dcols.st.ignore_vals
           ELSE /\ y \in dcols.st.ignore_vals
                /\ \A i \in nodes_in(y) : i \notin dcols.data.rows_written
                /\ ~nested_in_slot(x) =>
                     has_column(dcols.st, x) /\ x \notin dcols.st.ignore_vals
  /\ (phase = "parsed" /\ valid_records /\ outcome = "table") =>
       \A x \in 0..(Len(parsed_tree) - 1), y \in 0..(Len(parsed_tree) - 1) :
         second_leaf(parsed_tree, x, y) =>
           LET v == IF parsed_tree[x + 1].category = "NC_VAL" THEN x ELSE y
               s == IF parsed_tree[x + 1].category = "NC_VAL" THEN y ELSE x
           IN  /\ v \in parsed_columns.ignore_vals /\ v \notin parsed_columns.columns
               /\ s \in parsed_columns.columns /\ s \notin parsed_columns.ignore_vals

\* [{"a":"x"},{"a":1}] was built with coercion disabled: the Value column is
\* ignored and the String column stays
C27_Witness ==
  /\ built /\ dcols.threw = "" /\ ~is_enabled_mixed_types_as_string
  /\ records = <<"str", "val">>
  /\ \E x \in ColIds, y \in ColIds :
       /\ second_leaf(dcols.ct, x, y) /\ slot_parent_kept(x)
       /\ category_of(x) = "NC_STR" /\ category_of(y) = "NC_VAL"
       /\ y \in dcols.st.ignore_vals
       /\ nodes_in(y) # {}
       /\ \A i \in nodes_in(y) : i \notin dcols.data.rows_written
       /\ has_column(dcols.st, x) /\ x \notin dcols.st.ignore_vals

\* ------------------------------- claims on a leaf and a nested column
\* x is a leaf column and y a Struct or List column of the same parent and
\* name in column tree ct
leaf_and_nested(ct, x, y) ==
  LET cats == [c \in 0..(Len(ct) - 1) |-> ct[c + 1].category]
      nx   == name_and_parent_index(ct, cats, x)
      ny   == name_and_parent_index(ct, cats, y)
  IN  /\ cats[x] \in {"NC_VAL", "NC_STR"} /\ cats[y] \in {"NC_STRUCT", "NC_LIST"}
      /\ ~nx.fail /\ ~ny.fail
      /\ nx.name = ny.name /\ nx.parent = ny.parent

\* some parent and name of column tree ct hold a Struct and a List column
struct_and_list(ct) ==
  \E x \in 0..(Len(ct) - 1), u \in 0..(Len(ct) - 1), y \in 0..(Len(ct) - 1) :
    /\ leaf_and_nested(ct, x, u) /\ leaf_and_nested(ct, x, y)
    /\ ct[u + 1].category # ct[y + 1].category

\* the nested column y is kept by the device column builder and the leaf
\* column x ignored
nested_kept(x, y) ==
  /\ x \in dcols.st.ignore_vals
  /\ has_column(dcols.st, y) /\ y \notin dcols.st.ignore_vals
  /\ dcols.st.type[column_at(dcols.st, y)] = to_json_col_type(category_of(y))

\* the nested column y is kept by make_json_column2 and the leaf column x
\* ignored
parsed_nested_kept(x, y) ==
  /\ ~parsed_columns.threw /\ ~parsed_columns.ub
  /\ x \in parsed_columns.ignore_vals /\ x \notin parsed_columns.columns
  /\ y \in parsed_columns.columns /\ y \notin parsed_columns.ignore_vals

\* C28: with coercion disabled, when a leaf column and a nested column share
\* the same parent and name, the nested column is the one kept and the leaf
\* column is ignored, whichever of the two is encountered first.
C28_NestedKeptLeafIgnored ==
  /\ (built /\ ~is_enabled_mixed_types_as_string /\ dcols.threw = "") =>
       \A x \in ColIds, y \in ColIds :
         leaf_and_nested(dcols.ct, x, y) => nested_kept(x, y)
  /\ (phase = "parsed" /\ valid_records /\ Len(tree.nodes) > 0
                       /\ ~struct_and_list(parsed_tree)) =>
       \A x \in 0..(Len(parsed_tree) - 1), y \in 0..(Len(parsed_tree) - 1) :
         leaf_and_nested(parsed_tree, x, y) => parsed_nested_kept(x, y)

\* ---------------------------------- claims on the parents of kept columns
\* the device columns were built with column pruning on
pruning_done ==
  /\ phase \in {"pruned", "pruned_built"}
  /\ dcols.prune_columns
  /\ dcols.threw # "write outside is_pruned"

\* the columns above column c in the column tree
RECURSIVE ancestors(_)
ancestors(c) ==
  LET p == dcols.ct[c + 1].parent
  IN  IF p = parent_node_sentinel THEN {} ELSE {p} \cup ancestors(p)

\* C29: with pruning enabled, when the pruning pass has ended every column
\* above a column that is not pruned is itself not pruned, and the tree
\* construction never looks up a parent column that was skipped.
C29_ParentsOfKeptColumnsKept ==
  pruning_done =>
    /\ \A c \in ColIds :
         (c \notin dcols.st.pruned /\ category_of(c) \notin {"NC_ERR", "NC_FN"}) =>
           ancestors(c) \cap dcols.st.pruned = {}
    /\ dcols.threw # "Parent column not found"

\* [{"b":1,"a":1}] was built by build_tree with a type for b only: the column
\* of a is pruned, the column of b is kept and so are the record and the list
\* of records above it
C29_Witness ==
  /\ pruning_done /\ phase = "pruned_built" /\ dcols.threw = ""
  /\ records = <<"ba">>
  /\ dcols.dtypes = << <<(<<"b">>), leaf_type>> >>
  /\ \E c \in ColIds, d \in ColIds :
       /\ category_of(c) = "NC_VAL" /\ c \notin dcols.st.pruned
       /\ has_column(dcols.st, c)
       /\ Cardinality(ancestors(c)) = 3
       /\ ancestors(c) \cap dcols.st.pruned = {}
       /\ category_of(d) = "NC_VAL" /\ d \in dcols.st.pruned

\* ------------------------------------- claims on the two passes of a row
\* the size the size pass computed for row i
row_size(i) == size_result.offsets[i + 1] - size_result.offsets[i]

\* the positions, counted from the row's offset, the fill pass wrote for row i
row_written(i) ==
  UNION {{casted.writes[i][k][1] + j : j \in 0..(Len(casted.writes[i][k][2]) - 1)} :
           k \in 1..Len(casted.writes[i])}

\* C30: for every row the number of bytes the fill pass writes equals the size
\* the size pass computed for the row, and the fill pass writes only inside
\* the row's slice of the output buffer, also for rows whose decoding fails.
C30_FillWritesTheSizedSlice ==
  phase = "cast" =>
    \A i \in 1..Len(str_rows) :
      /\ Cardinality(row_written(i)) = row_size(i)
      /\ row_written(i) \subseteq 0..(row_size(i) - 1)

\* ------------------------------------------- streams and the hand-overs
\* The host steps of a stage between the device work that produces its
\* buffers and the first host reads of them, in program order.  A step is
\*   launch       device work queued on a stream,
\*   copy_async   a device-to-host copy queued on a stream; the host buffer
\*                holds the data once the copy has run,
\*   synchronize  the host waits until the stream is drained,
\*   read         the host reads a host buffer.
\* The stream "stream" is the caller's argument, "default" is
\* cudf::default_stream_value.
step(op, on, buf) == [op |-> op, on |-> on, buf |-> buf]

\* get_tree_representation: the token buffers are copied back and the stream
\* is synchronized before the host loop over the tokens
get_tree_representation_steps ==
  << step("launch", "stream", "d_input"),
     step("launch", "stream", "get_token_stream"),
     step("copy_async", "stream", "token_indices_gpu"),
     step("copy_async", "stream", "tokens_gpu"),
     step("copy_async", "stream", "num_tokens_out"),
     step("synchronize", "stream", ""),
     step("read", "", "num_tokens_out"),
     step("read", "", "tokens_gpu"),
     step("read", "", "token_indices_gpu") >>

\* make_json_column2: seven copies on the caller's stream, then the column
\* names, whose two copies are made and waited for on the default stream,
\* then the host reads
make_json_column2_steps ==
  << step("launch", "stream", "gather_column_info"),
     step("copy_async", "stream", "unique_col_ids"),
     step("copy_async", "stream", "column_categories"),
     step("copy_async", "stream", "column_parent_ids"),
     step("copy_async", "stream", "column_levels"),
     step("copy_async", "stream", "column_range_beg"),
     step("copy_async", "stream", "column_range_end"),
     step("copy_async", "stream", "max_row_offsets"),
     step("launch", "stream", "string_views"),
     step("launch", "stream", "d_column_names"),
     step("copy_async", "default", "h_chars"),
     step("synchronize", "default", ""),
     step("copy_async", "default", "h_offsets"),
     step("synchronize", "default", ""),
     step("read", "", "h_chars"),
     step("read", "", "h_offsets"),
     step("read", "", "unique_col_ids"),
     step("read", "", "column_categories"),
     step("read", "", "column_parent_ids"),
     step("read", "", "column_range_beg"),
     step("read", "", "max_row_offsets") >>

\* build_tree: five copies on the caller's stream, a synchronization of that
\* stream, then the host reads
build_tree_steps ==
  << step("copy_async", "stream", "unique_col_ids"),
     step("copy_async", "stream", "column_categories"),
     step("copy_async", "stream", "column_parent_ids"),
     step("copy_async", "stream", "column_range_beg"),
     step("copy_async", "stream", "max_row_offsets"),
     step("synchronize", "stream", ""),
     step("read", "", "column_categories"),
     step("read", "", "unique_col_ids"),
     step("read", "", "column_parent_ids"),
     step("read", "", "column_range_beg"),
     step("read", "", "max_row_offsets") >>

Stages == {"get_tree_representation", "make_json_column2", "build_tree"}

steps_of(fn) ==
  CASE fn = "get_tree_representation" -> get_tree_representation_steps
    [] fn = "make_json_column2" -> make_json_column2_steps
    [] fn = "build_tree" -> build_tree_steps
    [] OTHER -> <<>>

\* the stream a step names, given whether the caller passed the default stream
stream_of(on, same_stream) == IF on = "stream" /\ ~same_stream THEN "other" ELSE "default"

\* whether the queued item k may run now: the items of one stream run in the
\* order they were queued; with the legacy default stream and a blocking
\* stream, work of either stream also waits for the earlier work of the other
may_run(h, k) ==
  \A j \in 1..(k - 1) : ~h.legacy /\ h.queue[j].on # h.queue[k].on

\* the queue without its item k
drop_item(q, k) == SubSeq(q, 1, k - 1) \o SubSeq(q, k + 1, Len(q))

\* whether nothing is queued on the stream
drained(h, on) == \A k \in 1..Len(h.queue) : h.queue[k].on # on

\* whether the copy into a host buffer is still queued
copy_pending(h, buf) == \E k \in 1..Len(h.queue) : h.queue[k].buf = buf

\* what one host step makes of the state; a synchronize is taken only once
\* the stream is drained
host_step(h, s) ==
  LET on == stream_of(s.on, h.same_stream)
  IN  CASE s.op \in {"launch", "copy_async"} ->
             [h EXCEPT !.pc = h.pc + 1, !.queue = Append(h.queue, [on |-> on, buf |-> s.buf])]
        [] s.op = "synchronize" -> [h EXCEPT !.pc = h.pc + 1]
        [] s.op = "read" ->
             [h EXCEPT !.pc = h.pc + 1,
                       !.early = IF copy_pending(h, s.buf) THEN h.early \cup {s.buf} ELSE h.early]

\* ------------------------------------ specification of the hand-overs
SyncInit ==
  /\ AuxIdle
  /\ phase = "idle"
  /\ input = <<>>
  /\ top_of_stack = <<>>
  /\ tokens = <<>>
  /\ tree = [nodes |-> <<>>, threw |-> FALSE]
  /\ outcome = "none"
  /\ records = <<>>
  /\ is_enabled_mixed_types_as_string = FALSE
  /\ dcols = <<>>
  /\ StrIdle
  /\ RedIdle

\* a stage is entered with the caller's stream, which is the default stream
\* or another one, in a build whose default stream is the legacy one (ordered
\* with blocking streams) or not
CallStage ==
  /\ phase = "idle"
  /\ phase' = "running"
  /\ \E fn \in Stages, same_stream \in BOOLEAN, legacy \in BOOLEAN :
       hand_over' = [fn |-> fn, pc |-> 1, same_stream |-> same_stream, legacy |-> legacy,
                     queue |-> <<>>, early |-> {}]
  /\ UNCHANGED <<tokVars, colVars, strVars, redVars, jcols, fetch>>

\* the host thread takes its next step
HostStep ==
  /\ phase = "running"
  /\ hand_over.pc <= Len(steps_of(hand_over.fn))
  /\ LET s == steps_of(hand_over.fn)[hand_over.pc]
     IN  /\ s.op = "synchronize" => drained(hand_over, stream_of(s.on, hand_over.same_stream))
         /\ hand_over' = host_step(hand_over, s)
  /\ UNCHANGED <<phase, tokVars, colVars, strVars, redVars, jcols, fetch>>

\* the device runs one queued item
DeviceStep ==
  /\ phase = "running"
  /\ \E k \in 1..Len(hand_over.queue) :
       /\ may_run(hand_over, k)
       /\ hand_over' = [hand_over EXCEPT !.queue = drop_item(hand_over.queue, k)]
  /\ UNCHANGED <<phase, tokVars, colVars, strVars, redVars, jcols, fetch>>

SyncNext == CallStage \/ HostStep \/ DeviceStep

SpecSync == SyncInit /\ [][SyncNext]_vars

\* ------------------------------------------- claims on the hand-overs
\* C31: no stage and no host step reads a buffer of the previous stage before
\* that buffer is completely written: every host read comes after the copy
\* into the buffer it reads has run.
C31_NoReadBeforeWritten ==
  hand_over.early = {}

\* the same for the two stages that synchronize the caller's stream
synchronized_stages ==
  hand_over.fn \in {"get_tree_representation", "build_tree"} => hand_over.early = {}

\* make_json_column2 reads early only when the caller's stream is neither the
\* default stream nor ordered with it
early_only_on_unordered_stream ==
  hand_over.early # {} =>
    /\ hand_over.fn = "make_json_column2"
    /\ ~hand_over.same_stream /\ ~hand_over.legacy

\* -------------------------- scatter passes of make_json_column2
\* gather_column_info: the largest row offset of each column id; a column
\* whose parent is no list takes that of its highest ancestor below a list
gather_max_row_offsets(ct, col_ids, row_offsets) ==
  LET n == Len(ct)
      own(c) == LET rs == {row_offsets[k] : k \in {j \in 1..Len(col_ids) : col_ids[j] = c}}
                IN  CHOOSE m \in rs : \A r \in rs : r <= m
      walks(c) == ct[c + 1].parent # -1 /\ ct[ct[c + 1].parent + 1].category # "NC_LIST"
      top[c \in 0..(n - 1)] == IF walks(c) THEN top[ct[c + 1].parent] ELSE c
  IN  seq_of([c1 \in 1..n |-> own(top[c1 - 1])], n)

\* The passes 3 to 5 of make_json_column2. Nodes are 1-based here: node id i
\* of the code is position i + 1. past_end_same tells whether col_ids[i + 1],
\* read for the last element of the sorted array, compares equal to col_ids[i].
scatter_json_column2(nodes, col_ids, row_offsets, st, max_row_offsets, past_end_same) ==
  LET N == 1..Len(nodes)
      num_nodes == Len(nodes)
      has(c) == c \in st.columns
      size(c) == max_row_offsets[c + 1] + 1
      \* 3. scatter offsets to respective columns
      writers == {i \in N : \/ nodes[i].category \in {"NC_STRUCT", "NC_LIST", "NC_STR"}
                            \/ /\ nodes[i].category = "NC_VAL"
                               /\ col_ids[i] \notin st.ignore_vals}
      leaf_writers == {i \in writers : nodes[i].category \in {"NC_STR", "NC_VAL"}}
      in_range(i) == has(col_ids[i]) /\ row_offsets[i] < size(col_ids[i])
      validity == {<<col_ids[i], row_offsets[i], 1>> : i \in {j \in writers : in_range(j)}}
      Woff == {<<col_ids[i], row_offsets[i], nodes[i].range_begin>> :
                 i \in {j \in leaf_writers : in_range(j)}}
      Wlen == {<<col_ids[i], row_offsets[i], nodes[i].range_end - nodes[i].range_begin>> :
                 i \in {j \in leaf_writers : in_range(j)}}
      \* scatter List offset: all nodes, stable-sorted by column id
      node_ids == stable_sort_by_parent_col(SeqOfSet(N), col_ids)
      sorted_col_ids(k) == col_ids[node_ids[k]]
      ordered_parent_node_ids(k) == nodes[node_ids[k]].parent
      is_list_child(k) == /\ ordered_parent_node_ids(k) # -1
                          /\ nodes[ordered_parent_node_ids(k) + 1].category = "NC_LIST"
      list_children == {k \in N : is_list_child(k)}
      is_first(k) == \/ k = 1
                     \/ sorted_col_ids(k - 1) # sorted_col_ids(k)
                     \/ ordered_parent_node_ids(k - 1) # ordered_parent_node_ids(k)
      \* i == num_nodes never holds for i < num_nodes
      is_last(k) == IF k = num_nodes THEN ~past_end_same
                    ELSE sorted_col_ids(k) # sorted_col_ids(k + 1)
      list_col(k) == col_ids[ordered_parent_node_ids(k) + 1]
      list_row(k) == row_offsets[ordered_parent_node_ids(k) + 1]
      list_ok(k) == has(list_col(k)) /\ list_row(k) + 1 <= size(list_col(k))
      Wchild ==
        {<<list_col(k), list_row(k), row_offsets[node_ids[k]]>> :
           k \in {j \in list_children : is_first(j) /\ list_ok(j)}}
        \cup
        {<<list_col(k), list_row(k) + 1, row_offsets[node_ids[k]] + 1>> :
           k \in {j \in list_children : is_last(j) /\ list_ok(j)}}
      races(W) == \E x \in W, y \in W : x[1] = y[1] /\ x[2] = y[2] /\ x[3] # y[3]
      raw_off == [d \in st.columns |-> [r \in 1..size(d) |-> cell_after(Woff, d, r - 1)]]
      raw_len == [d \in st.columns |-> [r \in 1..size(d) |-> cell_after(Wlen, d, r - 1)]]
      raw_child == [d \in st.columns |-> [r \in 1..(size(d) + 1) |-> cell_after(Wchild, d, r - 1)]]
  IN  [validity       |-> {<<w[1], w[2]>> : w \in validity},
       num_rows       |-> [d \in st.columns |-> size(d)],
       \* scan on offsets
       string_offsets |-> [d \in st.columns |->
                             IF st.type[d] = "StringColumn"
                             THEN inclusive_scan_max(raw_off[d], size(d)) ELSE <<>>],
       string_lengths |-> [d \in st.columns |->
                             IF st.type[d] = "StringColumn" THEN raw_len[d] ELSE <<>>],
       child_offsets  |-> [d \in st.columns |->
                             IF st.type[d] = "ListColumn"
                             THEN inclusive_scan_max(raw_child[d], size(d) + 1) ELSE <<>>],
       bad_write      |-> \/ \E i \in writers : ~in_range(i)
                          \/ \E k \in list_children : ~list_ok(k),
       race           |-> races(Woff) \/ races(Wlen) \/ races(Wchild),
       writes         |-> [validity       |-> validity,
                           string_offsets |-> Woff,
                           string_lengths |-> Wlen,
                           child_offsets  |-> Wchild],
       \* the elements of the sorted arrays (from 0) that the run-boundary
       \* detection reads beside its own, and how many there are
       boundary_reads |-> {k - 2 : k \in {j \in list_children : ~(j = 1)}}
                          \cup {k : k \in list_children},
       boundary_size  |-> num_nodes]

\* make_json_column2 of a document with its buffers
make_json_column2_data(in, nodes, col_ids, row_offsets, past_end_same) ==
  LET ct == gather_column_info(in, nodes, col_ids)
      scattered(st) ==
        [threw |-> st.threw, ub |-> st.ub, ct |-> ct, st |-> st, col_ids |-> col_ids,
         row_offsets |-> row_offsets, past_end_same |-> past_end_same,
         data |-> IF st.threw \/ st.ub THEN <<>>
                  ELSE scatter_json_column2(nodes, col_ids, row_offsets, st,
                         gather_max_row_offsets(ct, col_ids, row_offsets), past_end_same)]
  IN  scattered(make_json_column2(ct))

\* ------------------------------ specification of the scatter passes
\* most records of a document given to the scatter passes
MaxScattered == 3

\* what a record of these documents holds: field "a" with a number, the null
\* literal, a list of one number, of none, of two or of a number and an
\* object, or field "a" twice, with two numbers or with two lists
ScatterKinds == {"val", "null", "list", "list0", "list2", "listM", "dup", "dupL"}

\* the document gets one more record
AddMember ==
  /\ phase = "read"
  /\ Len(records) < MaxScattered
  /\ \E kind \in ScatterKinds :
       /\ records' = Append(records, kind)
       /\ input' = document_text(Append(records, kind))
  /\ UNCHANGED <<phase, top_of_stack, tokens, tree, outcome, is_enabled_mixed_types_as_string, dcols,
                 strVars, redVars, auxVars>>

\* both column builders run their scatter passes over the document; the reads
\* outside the arrays may return either value
Scatter ==
  /\ phase = "read"
  /\ phase' = "scattered"
  /\ LET tr          == get_tree_representation(input)
         col_ids     == records_orient_tree_traversal(input, tr.nodes)
         row_offsets == row_offsets_of(tr.nodes, col_ids)
     IN  /\ ~tr.threw
         /\ tree' = tr
         /\ \E sentinel_read \in SentinelReads :
              dcols' = make_device_json_column(input, tr.nodes, col_ids, row_offsets,
                         is_enabled_mixed_types_as_string, sentinel_read)
         /\ \E past_end_same \in BOOLEAN :
              jcols' = make_json_column2_data(input, tr.nodes, col_ids, row_offsets, past_end_same)
  /\ UNCHANGED <<input, top_of_stack, tokens, outcome, records, is_enabled_mixed_types_as_string,
                 strVars, redVars, hand_over, fetch>>

ScatNext == AddMember \/ Scatter

SpecScat == ColInit /\ [][ScatNext]_vars

\* ------------------------------------------ claims on the scatter passes
\* whether two of the writes <<column, index, value>> go to one slot with
\* different values
conflicting(W) == \E x \in W, y \in W : x[1] = y[1] /\ x[2] = y[2] /\ x[3] # y[3]

\* whether some slot of the buffers depends on the order of the tasks
order_dependent(writes) ==
  \/ conflicting(writes.validity)
  \/ conflicting(writes.string_offsets)
  \/ conflicting(writes.string_lengths)
  \/ conflicting(writes.child_offsets)

\* the device column builder has scattered the document
device_scattered == phase = "scattered" /\ dcols.threw = ""

\* make_json_column2 has scattered the document
json2_scattered == phase = "scattered" /\ ~jcols.threw /\ ~jcols.ub

\* C32: the buffers of the scatter passes are the same for every order of the
\* per-node tasks: two tasks that write one slot (a validity bit, an entry of
\* string_offsets, string_lengths or child_offsets) write the same value.
C32_ScatterOrderIndependent ==
  /\ device_scattered => ~order_dependent(dcols.data.writes)
  /\ json2_scattered => ~order_dependent(jcols.data.writes)

\* whether some record names a field twice
has_duplicates == \E k \in 1..Len(records) : records[k] \in {"dup", "dupL"}

\* without a field named twice in a record the device column builder's
\* buffers do not depend on the order
device_order_independent_without_duplicates ==
  (device_scattered /\ ~has_duplicates) => ~order_dependent(dcols.data.writes)

\* the validity bits never depend on the order
validity_order_independent ==
  /\ device_scattered => ~conflicting(dcols.data.writes.validity)
  /\ json2_scattered => ~conflicting(jcols.data.writes.validity)

\* without a field named twice and without a list of elements of two kinds,
\* make_json_column2's string buffers do not depend on the order
json2_strings_order_independent_without_duplicates ==
  (json2_scattered /\ ~has_duplicates) =>
    /\ ~conflicting(jcols.data.writes.string_offsets)
    /\ ~conflicting(jcols.data.writes.string_lengths)

\* ------------------------------------------ claims on the child offsets
\* the nodes (from 1) of column c at row r
nodes_at(col_ids, row_offsets, c, r) ==
  {i \in 1..Len(col_ids) : col_ids[i] = c /\ row_offsets[i] = r}

\* how many elements the lists of column c at row r hold
elements_at(col_ids, row_offsets, c, r) ==
  Cardinality({j \in 1..Len(tree.nodes) :
                 /\ tree.nodes[j].parent # parent_node_sentinel
                 /\ tree.nodes[j].parent + 1 \in nodes_at(col_ids, row_offsets, c, r)})

\* whether the child offsets of a list column of num_rows rows give every row
\* the number of elements of its list
offsets_count_elements(child_offsets, num_rows, col_ids, row_offsets, c) ==
  /\ Len(child_offsets) = num_rows + 1
  /\ \A r \in 0..(num_rows - 1) :
       child_offsets[r + 2] - child_offsets[r + 1] = elements_at(col_ids, row_offsets, c, r)

\* the List columns of the device column builder with their device column
device_lists ==
  {e \in dcols.st.columns : /\ e[2] # parent_node_sentinel
                            /\ dcols.st.type[e[2]] = "ListColumn"
                            /\ e[1] \notin dcols.st.ignore_vals
                            /\ dcols.st.cats[e[1]] = "NC_LIST"}

\* the List columns of make_json_column2
json2_lists ==
  {c \in jcols.st.columns : jcols.st.type[c] = "ListColumn" /\ jcols.ct[c + 1].category = "NC_LIST"}

\* C33: for every row r of a List column, after the scatter and the scan,
\* child_offsets[r+1] - child_offsets[r] is the number of elements of the list
\* at row r, and 0 for a row that is null or an empty list.
C33_ChildOffsetsCountElements ==
  /\ (device_scattered /\ ~dcols.data.bad_write) =>
       \A e \in device_lists :
         offsets_count_elements(dcols.data.child_offsets[e[2]], dcols.st.num_rows[e[2]],
                                dcols.col_ids, dcols.row_offsets, e[1])
  /\ (json2_scattered /\ ~jcols.data.bad_write) =>
       \A c \in json2_lists :
         offsets_count_elements(jcols.data.child_offsets[c], jcols.data.num_rows[c],
                                jcols.col_ids, jcols.row_offsets, c)

\* the device column builder counts the elements whenever no record names a
\* field twice
device_offsets_count_elements ==
  (device_scattered /\ ~dcols.data.bad_write /\ ~has_duplicates) =>
    \A e \in device_lists :
      offsets_count_elements(dcols.data.child_offsets[e[2]], dcols.st.num_rows[e[2]],
                             dcols.col_ids, dcols.row_offsets, e[1])

\* whether the elements of every list are of one kind and every list but the
\* last of the document has an element
plain_lists ==
  /\ \A k \in 1..Len(records) : records[k] \in {"list", "list2", "list0", "null", "val"}
  /\ \A k \in 1..(Len(records) - 1) : records[k] \in {"list", "list2"}

\* make_json_column2 counts the elements of such documents when the read
\* past the end of col_ids compares unequal
json2_offsets_count_elements ==
  (json2_scattered /\ ~jcols.data.bad_write /\ plain_lists /\ ~jcols.past_end_same) =>
    \A c \in json2_lists :
      offsets_count_elements(jcols.data.child_offsets[c], jcols.data.num_rows[c],
                             jcols.col_ids, jcols.row_offsets, c)

\* -------------------------------- claims on the run-boundary detection
\* C38: the run-boundary detection of the list child offsets reads element
\* i + 1 of the sorted arrays only when i is not the last element and element
\* i - 1 only when i > 0: it never reads outside the arrays.
C38_BoundaryReadsInside ==
  /\ device_scattered =>
       dcols.data.boundary_reads \subseteq 0..(dcols.data.boundary_size - 1)
  /\ json2_scattered =>
       jcols.data.boundary_reads \subseteq 0..(jcols.data.boundary_size - 1)

\* the device column builder reads inside the arrays, and make_json_column2
\* reads no element before the first
boundary_reads_but_past_end ==
  /\ device_scattered =>
       dcols.data.boundary_reads \subseteq 0..(dcols.data.boundary_size - 1)
  /\ json2_scattered =>
       jcols.data.boundary_reads \subseteq 0..jcols.data.boundary_size

\* ------------------------------------- claims on the escape scan
\* the characters the character loop of a decode path goes over
decoded_chars(str, options) ==
  IF options.keepquotes THEN str ELSE SubSeq(str, 2, Len(str) - 1)

\* the left-to-right rule of the one-thread loop: character k (from 1) is a
\* backslash that escapes the next character when the backslashes just before
\* it pair up, so that it is not itself escaped
sequential_escaping(chars, k) ==
  /\ chars[k] = backslash_char
  /\ \E start \in 0..(k - 1) :
       /\ start > 0 => chars[start] # backslash_char
       /\ \A j \in (start + 1)..(k - 1) : chars[j] = backslash_char
       /\ (k - 1 - start) % 2 = 0

\* character k is escaped by the left-to-right rule
sequential_escaped(chars, k) == k > 1 /\ sequential_escaping(chars, k - 1)

\* an iteration in which some thread found an error is the last one
chunk_error(chars, base, BLOCK_SIZE, is_escaping_backslash) ==
  \E l \in 0..(BLOCK_SIZE - 1) : lane_error(chars, base, l, is_escaping_backslash)

RECURSIVE escaping_chunks(_, _, _, _, _, _)
\* is_escaping_backslash of one iteration, followed by the later iterations'
escaping_chunk(chars, base, BLOCK_SIZE, is_warp, race, next_state, is_escaping_backslash) ==
  IF chunk_error(chars, base, BLOCK_SIZE, is_escaping_backslash)
  THEN is_escaping_backslash
  ELSE is_escaping_backslash
         \o escaping_chunks(chars, base + BLOCK_SIZE, BLOCK_SIZE, is_warp, race, next_state)

\* one iteration once its backslash scan is known
escaping_scanned(chars, base, BLOCK_SIZE, is_warp, race, init_state, scanned) ==
  escaping_chunk(chars, base, BLOCK_SIZE, is_warp, race,
                 scanned[BLOCK_SIZE][IF init_state THEN 2 ELSE 1],
                 escaping_backslash(BLOCK_SIZE, is_warp, race, init_state, scanned))

\* is_escaping_backslash of every thread in every iteration of the character
\* loop of parse_fn_string_parallel, the iterations one after the other
escaping_chunks(chars, base, BLOCK_SIZE, is_warp, race, init_state) ==
  IF base >= Len(chars) THEN <<>>
  ELSE escaping_scanned(chars, base, BLOCK_SIZE, is_warp, race, init_state,
                        SlashScan(slash_vectors(chars, base, BLOCK_SIZE), 1, BLOCK_SIZE,
                                  <<FALSE, TRUE>>))

\* is_escaping_backslash of the one-warp path (is_warp) or the one-block path
parallel_escaping(chars, is_warp, race) ==
  escaping_chunks(chars, 0, IF is_warp THEN warp_size ELSE warp_size * warps_per_block,
                  is_warp, race, FALSE)

\* the thread of character k (from 1) takes its character for an escaped one:
\* the error checks and the write test the character before it
parallel_escaped(chars, is_escaping_backslash, k) ==
  /\ ~is_escaping_backslash[k]
  /\ lane_prev_c(chars, k - 1, 0) = backslash_char

\* the threads of one path agree with the left-to-right rule on which
\* backslashes escape
escaping_as_sequential(chars, is_escaping_backslash) ==
  \A k \in 1..Len(chars) :
    k <= Len(is_escaping_backslash) =>
      is_escaping_backslash[k] = sequential_escaping(chars, k)

\* the threads of one path agree with the left-to-right rule on which
\* characters are escaped
escaped_as_sequential(chars, is_escaping_backslash) ==
  \A k \in 1..Len(chars) :
    k <= Len(is_escaping_backslash) =>
      parallel_escaped(chars, is_escaping_backslash, k) = sequential_escaped(chars, k)

\* the rows of the batch the character loop decodes
decoded_rows ==
  {i \in 1..Len(str_rows) :
     /\ str_rows[i].kind # "null"
     /\ is_string_value(span_of(str_rows, pad, i), options_of(caller))}

chars_of_row(i) == decoded_chars(span_of(str_rows, pad, i), options_of(caller))

\* C34: the one-warp and the one-block decode path take a character for
\* escaped exactly when the left-to-right rule does (a backslash escapes the
\* next character only if it is not itself escaped), for every string and
\* every split into iterations, all threads of an iteration using the same
\* carried-in escape state.
C34_EscapedAsSequential ==
  cast =>
    \A i \in decoded_rows : \A is_warp \in BOOLEAN : \A race \in {"none", "init_state"} :
      /\ escaping_as_sequential(chars_of_row(i), parallel_escaping(chars_of_row(i), is_warp, race))
      /\ escaped_as_sequential(chars_of_row(i), parallel_escaping(chars_of_row(i), is_warp, race))

\* with every thread reading the carried-in state before the last thread
\* replaces it, both paths find the escaping backslashes of the left-to-right
\* rule, across the iterations too
escaping_backslashes_as_sequential ==
  cast =>
    \A i \in decoded_rows : \A is_warp \in BOOLEAN :
      escaping_as_sequential(chars_of_row(i), parallel_escaping(chars_of_row(i), is_warp, "none"))

\* the one-warp path keeps its carried-in state in a register of each thread:
\* its threads always use the same one
warp_state_is_private ==
  cast =>
    \A i \in decoded_rows :
      parallel_escaping(chars_of_row(i), TRUE, "init_state")
        = parallel_escaping(chars_of_row(i), TRUE, "none")

\* the characters one path takes for escaped without their being so follow an
\* escaped backslash
wrongly_escaped_after_backslash(chars, is_escaping_backslash) ==
  \A k \in 1..Len(chars) :
    (/\ k <= Len(is_escaping_backslash)
     /\ parallel_escaped(chars, is_escaping_backslash, k) # sequential_escaped(chars, k))
      => /\ k > 2
         /\ sequential_escaped(chars, k - 1)
         /\ chars[k - 1] = backslash_char
         /\ ~sequential_escaped(chars, k)

\* a character is taken for escaped without being so only after an escaped
\* backslash
escaped_but_after_escaped_backslash ==
  cast =>
    \A i \in decoded_rows : \A is_warp \in BOOLEAN :
      wrongly_escaped_after_backslash(chars_of_row(i),
                                      parallel_escaping(chars_of_row(i), is_warp, "none"))

\* ------------------------------------- claims on the token buffers
\* the closing brackets that end a literal: the only bytes at which the
\* tokenizer emits two tokens
literal_closers(in) ==
  {k \in 2..Len(in) : in[k] \in {"]", "}"} /\ in[k - 1] = "x"}

\* C35: for every input of n bytes the tokenizer emits at most n tokens, so
\* that the token buffer and the token-offset buffer, allocated with n entries
\* each, are never written past their end.
C35_TokensFitInput ==
  phase = "parsed" => Len(tokens) <= Len(input)

\* every byte emits at most one token, but for a bracket that ends a literal,
\* which emits two
tokens_fit_input_and_closers ==
  phase = "parsed" => Len(tokens) <= Len(input) + Cardinality(literal_closers(input))

\* a text in which no bracket ends a literal fits the buffers
tokens_fit_without_closers ==
  (phase = "parsed" /\ literal_closers(input) = {}) => Len(tokens) <= Len(input)

\* ------------------------------------- claims on column_order
\* no name stands twice in a column_order
no_name_twice(order) ==
  \A k \in 1..Len(order) : \A j \in 1..Len(order) : order[k] = order[j] => k = j

\* the names of child_columns of column c
child_names(st, c) == {e[2] : e \in {x \in st.children : x[1] = c}}

\* column_order of column c lists the names of its child_columns, each once
order_lists_children(st, c) ==
  /\ no_name_twice(st.order[c])
  /\ {st.order[c][k] : k \in 1..Len(st.order[c])} = child_names(st, c)

\* the same of every struct column of a column tree
struct_orders_list_children(st) ==
  \A c \in DOMAIN st.type : st.type[c] = "StructColumn" => order_lists_children(st, c)

\* C36: after the column tree is built, column_order of every struct column
\* lists exactly the names in its child_columns, each name once; also after a
\* leaf column was replaced by a nested column of its name, after coercion
\* removed child columns and after an empty child was removed.
C36_OrderListsChildren ==
  /\ device_scattered => struct_orders_list_children(dcols.st)
  /\ json2_scattered => struct_orders_list_children(jcols.st)

\* build_tree of the device columns keeps the two in step, coercion and
\* replaced leaves included
device_orders_list_children ==
  (phase \in {"built", "scattered", "pruned_built"} /\ dcols.threw = "")
    => struct_orders_list_children(dcols.st)

\* experimental::build_tree keeps the two in step for the struct columns
pruned_orders_list_children ==
  (phase = "pruned" /\ dcols.threw = "") => struct_orders_list_children(dcols.st)

\* make_json_column2 lists every child and no other name; a name stands twice
\* only where a nested column replaced a value column
json2_orders_but_replaced ==
  json2_scattered =>
    \A c \in DOMAIN jcols.st.type :
      jcols.st.type[c] = "StructColumn" =>
        /\ {jcols.st.order[c][k] : k \in 1..Len(jcols.st.order[c])} = child_names(jcols.st, c)
        /\ ~no_name_twice(jcols.st.order[c]) => jcols.st.ignore_vals # {}

\* ------------------------------------- claims on the sentinel parent id
RECURSIVE walk_reads(_, _)
\* the indexes at which the walk of gather_column_info (json_column.cu) reads
\* column_categories, from parent_col_id on: the loop reads the category
\* before it tests for -1
walk_reads(ct, parent_col_id) ==
  IF parent_col_id = -1 THEN {-1}
  ELSE IF ct[parent_col_id + 1].category = "NC_LIST" THEN {parent_col_id}
  ELSE {parent_col_id} \cup walk_reads(ct, ct[parent_col_id + 1].parent)

RECURSIVE checked_walk_reads(_, _)
\* the same of reduce_to_column_tree: the loop tests for the sentinel first
checked_walk_reads(ct, parent_col_id) ==
  IF parent_col_id = parent_node_sentinel THEN {}
  ELSE IF ct[parent_col_id + 1].category = "NC_LIST" THEN {parent_col_id}
  ELSE {parent_col_id} \cup checked_walk_reads(ct, ct[parent_col_id + 1].parent)

\* the columns that walk: their parent is neither the sentinel nor a list
walking_columns(ct) ==
  {c \in 0..(Len(ct) - 1) :
     /\ ct[c + 1].parent # parent_node_sentinel
     /\ ct[ct[c + 1].parent + 1].category # "NC_LIST"}

\* the indexes of column_categories read by all walks of gather_column_info
gather_walk_reads(ct) == UNION {walk_reads(ct, ct[c + 1].parent) : c \in walking_columns(ct)}

\* the same of reduce_to_column_tree
reduce_walk_reads(ct) ==
  UNION {checked_walk_reads(ct, ct[c + 1].parent) : c \in walking_columns(ct)}

\* the columns for which build_tree reads forced_as_string_column at the
\* sentinel: the test 'parent_col_id != sentinel && (...) || forced[parent_col_id]'
\* reads the array whenever its first part is false
build_tree_sentinel_reads(ct, cats) ==
  {c \in 0..(Len(ct) - 1) :
     /\ cats[c] \notin {"NC_ERR", "NC_FN"}
     /\ ~name_and_parent_index(ct, cats, c).fail
     /\ name_and_parent_index(ct, cats, c).parent = parent_node_sentinel}

\* build_tree has built the device columns of the document
device_built == phase = "built" /\ dcols.threw = ""

\* parse_nested_json2 has gathered the columns of the text
json2_gathered == phase = "parsed" /\ ~tree.threw /\ Len(tree.nodes) > 0

parsed_column_info == gather_column_info(input, tree.nodes, parsed_col_ids)

\* C37: no step indexes a per-column array with the sentinel parent id -1:
\* every walk from a column towards the root and every use of a parent column
\* id as an index tests for the sentinel before the id is used.
C37_NoSentinelIndex ==
  /\ device_built => build_tree_sentinel_reads(dcols.ct, dcols.st.cats) = {}
  /\ json2_gathered =>
       /\ -1 \notin gather_walk_reads(parsed_column_info)
       /\ ~parsed_columns.ub

\* the walks of reduce_to_column_tree never read at the sentinel
reduce_walks_test_sentinel ==
  device_built => parent_node_sentinel \notin reduce_walk_reads(dcols.ct)

\* build_tree reads at the sentinel for the root column and for no other
sentinel_read_for_root_only ==
  device_built =>
    build_tree_sentinel_reads(dcols.ct, dcols.st.cats)
      = {c \in 0..(Len(dcols.ct) - 1) : dcols.ct[c + 1].parent = parent_node_sentinel}

\* the walk of gather_column_info reads at -1 only in a text whose root is no
\* list
gather_walk_reads_sentinel_below_no_list ==
  (json2_gathered /\ -1 \in gather_walk_reads(parsed_column_info))
    => \E c \in 0..(Len(parsed_column_info) - 1) :
         /\ parsed_column_info[c + 1].parent = -1
         /\ parsed_column_info[c + 1].category # "NC_LIST"

\* ---------------------- the fetch loop of parse_fn_string_parallel
\* warps (one-warp kernel) or blocks (one-block kernel) of one launch
NumUnits == 2

\* threads of a warp or block: lane 0 and the others
NumThreads == 2

\* most strings of one launch
MaxFetched == 3

Units == 1..NumUnits

Lanes == 0..(NumThreads - 1)

\* what the loop body does with a row: it leaves by continue before any
\* barrier (a null row, a length the other kernel decodes, a null literal, a
\* value that is no string), or it runs the character loop with its scans
RowBodies == {"skip", "chars"}

\* where a thread goes after its loop body: lane 0 to the atomicAdd of
\* get_next_string, the others to its barrier
next_fetch(lane) == IF lane = 0 THEN "fetch" ELSE "sync"

\* where a thread goes with the index get_next_string returned
after_return(f, istring, lane) ==
  IF istring >= Len(f.rows) THEN "done"
  ELSE IF f.rows[istring + 1] = "skip" THEN next_fetch(lane)
  ELSE "loop"

\* thread lane of unit u takes istring for the index of its next iteration
return_istring(f, u, lane) ==
  [f EXCEPT !.pc[u][lane]   = after_return(f, f.istring[u], lane),
            !.seen[u][lane] = Append(@, f.istring[u])]

RECURSIVE return_all(_, _, _)
\* __shfl_sync: the lanes from lane on take lane 0's istring at once
return_all(f, u, lane) ==
  IF lane >= NumThreads THEN f
  ELSE return_all(IF f.pc[u][lane] = "sync" THEN return_istring(f, u, lane) ELSE f,
                  u, lane + 1)

\* the threads of unit u that have not left the kernel
live(f, u) == {l \in Lanes : f.pc[u][l] # "done"}

\* every live thread of unit u waits at a barrier
all_waiting(f, u) ==
  /\ u \notin f.hung
  /\ live(f, u) # {}
  /\ \A l \in live(f, u) : f.pc[u][l] \in {"sync", "loop"}

\* the threads of unit u pass the barrier they wait at
released(f, u) ==
  [f EXCEPT !.pc[u] = [l \in Lanes |->
                         IF f.pc[u][l] = "sync" THEN "read"
                         ELSE IF f.pc[u][l] = "loop" THEN next_fetch(l)
                         ELSE f.pc[u][l]]]

\* -------------------------------- specification of the fetch loop
\* a kernel is launched on the rows of a column, str_counter being 0
Launch ==
  /\ ~fetch.launched
  /\ \E is_warp \in BOOLEAN, n \in 0..MaxFetched :
       \E rows \in [1..n -> RowBodies] :
         fetch' = [launched    |-> TRUE,
                   is_warp     |-> is_warp,
                   rows        |-> rows,
                   str_counter |-> 0,
                   istring     |-> [u \in Units |-> -1],
                   pc          |-> [u \in Units |-> [l \in Lanes |-> next_fetch(l)]],
                   seen        |-> [u \in Units |-> [l \in Lanes |-> <<>>]],
                   claimed     |-> {},
                   early_write |-> {},
                   divergent   |-> {},
                   hung        |-> {}]
  /\ UNCHANGED <<phase, tokVars, colVars, strVars, redVars, hand_over, jcols>>

\* lane 0: istring = atomicAdd(str_counter, 1); in the one-block kernel
\* istring is the block's shared variable
AtomicAdd ==
  /\ fetch.launched
  /\ \E u \in Units :
       /\ u \notin fetch.hung
       /\ fetch.pc[u][0] = "fetch"
       /\ fetch' = [fetch EXCEPT
                      !.istring[u]  = fetch.str_counter,
                      !.str_counter = @ + 1,
                      !.claimed     = @ \cup {<<u, fetch.str_counter>>},
                      !.pc[u][0]    = "sync",
                      !.early_write = IF /\ ~fetch.is_warp
                                         /\ \E l \in Lanes : fetch.pc[u][l] = "read"
                                      THEN @ \cup {u} ELSE @]
  /\ UNCHANGED <<phase, tokVars, colVars, strVars, redVars, hand_over, jcols>>

\* the barrier of get_next_string: __syncwarp and __shfl_sync hand lane 0's
\* istring to every lane at once; __syncthreads lets the threads go on to
\* read the shared istring
SyncThreads ==
  /\ fetch.launched
  /\ \E u \in Units :
       /\ all_waiting(fetch, u)
       /\ \A l \in live(fetch, u) : fetch.pc[u][l] = "sync"
       /\ fetch' = IF fetch.is_warp THEN return_all(fetch, u, 0) ELSE released(fetch, u)
  /\ UNCHANGED <<phase, tokVars, colVars, strVars, redVars, hand_over, jcols>>

\* a thread of a block reads the shared istring: return istring
ReturnIstring ==
  /\ fetch.launched
  /\ \E u \in Units, l \in Lanes :
       /\ u \notin fetch.hung
       /\ fetch.pc[u][l] = "read"
       /\ fetch' = return_istring(fetch, u, l)
  /\ UNCHANGED <<phase, tokVars, colVars, strVars, redVars, hand_over, jcols>>

\* the character loop: its scans and its last barrier are passed by the
\* threads of the unit together
CharLoop ==
  /\ fetch.launched
  /\ \E u \in Units :
       /\ all_waiting(fetch, u)
       /\ \A l \in live(fetch, u) : fetch.pc[u][l] = "loop"
       /\ fetch' = released(fetch, u)
  /\ UNCHANGED <<phase, tokVars, colVars, strVars, redVars, hand_over, jcols>>

\* the threads of a block wait at different barriers: the behaviour is
\* undefined; the barrier lets them pass or the block hangs
DivergentBarrier ==
  /\ fetch.launched
  /\ \E u \in Units :
       /\ all_waiting(fetch, u)
       /\ \E l \in live(fetch, u) : fetch.pc[u][l] = "sync"
       /\ \E l \in live(fetch, u) : fetch.pc[u][l] = "loop"
       /\ \E hangs \in BOOLEAN :
            fetch' = IF hangs
                     THEN [fetch EXCEPT !.divergent = @ \cup {u}, !.hung = @ \cup {u}]
                     ELSE [released(fetch, u) EXCEPT !.divergent = @ \cup {u}]
  /\ UNCHANGED <<phase, tokVars, colVars, strVars, redVars, hand_over, jcols>>

FetchNext ==
  Launch \/ AtomicAdd \/ SyncThreads \/ ReturnIstring \/ CharLoop \/ DivergentBarrier

SpecFetch == SyncInit /\ [][FetchNext]_vars

\* the device runs every thread that can take a step
SpecFetchLive == SyncInit /\ [][FetchNext]_vars /\ WF_vars(FetchNext)

\* ------------------------------------- claims on the fetch loop
\* every thread has left the kernel
fetch_finished ==
  fetch.launched /\ \A u \in Units : \A l \in Lanes : fetch.pc[u][l] = "done"

\* the units that claimed string index i
claimers(i) == {u \in Units : <<u, i>> \in fetch.claimed}

\* no string index was claimed by two units
claimed_at_most_once ==
  fetch.launched => \A i \in 0..(MaxFetched + NumUnits) : Cardinality(claimers(i)) <= 1

\* every string index of the column was claimed by one unit
claimed_exactly_once ==
  \A i \in 0..(Len(fetch.rows) - 1) : Cardinality(claimers(i)) = 1

\* C39: within one launch of the parallel string decoder every string index
\* in [0, total) is claimed by exactly one warp or block through the shared
\* atomic counter, and the fetch loop terminates.
C39_ClaimedOnceAndTerminates ==
  /\ [](claimed_at_most_once)
  /\ <>(fetch_finished /\ claimed_exactly_once)

\* the index is never claimed twice, and a launch whose threads have all left
\* has claimed every index once
claimed_once_when_finished ==
  /\ claimed_at_most_once
  /\ fetch_finished => claimed_exactly_once

\* the one-warp kernel terminates with every index claimed once
warp_fetch_terminates ==
  (fetch.launched /\ fetch.is_warp) ~> (fetch_finished /\ claimed_exactly_once)

\* the one-block kernel terminates unless its threads met at different
\* barriers
block_fetch_terminates_or_diverged ==
  fetch.launched ~> (fetch_finished \/ (fetch.launched /\ fetch.hung # {}))

\* the threads of unit u were handed the same index in every iteration that
\* two of them have entered
same_observed(u) ==
  \A l \in Lanes :
    \A k \in 1..Len(fetch.seen[u][l]) :
      k <= Len(fetch.seen[u][0]) => fetch.seen[u][l][k] = fetch.seen[u][0][k]

\* C40: in the one-block kernel all threads of a block observe the same
\* string index in every iteration, and thread 0 never writes the shared index
\* of the next iteration before every thread has read the current one.
C40_BlockObservesOneIndex ==
  (fetch.launched /\ ~fetch.is_warp) =>
    /\ \A u \in Units : same_observed(u)
    /\ fetch.early_write = {}

\* the lanes of a warp are handed lane 0's index together: they observe the
\* same index and never meet at different barriers
warp_observes_one_index ==
  (fetch.launched /\ fetch.is_warp) =>
    /\ \A u \in Units : same_observed(u)
    /\ fetch.early_write = {} /\ fetch.divergent = {} /\ fetch.hung = {}

\* the threads of a block differ, or meet at different barriers, only after
\* thread 0 wrote the shared index early
block_differs_only_after_early_write ==
  fetch.launched =>
    \A u \in Units :
      (~same_observed(u) \/ u \in fetch.divergent) => u \in fetch.early_write

\* thread 0 writes early only after a row whose body has no barrier
early_write_only_after_skip ==
  fetch.launched =>
    \A u \in fetch.early_write :
      \E k \in 1..Len(fetch.seen[u][0]) :
        /\ fetch.seen[u][0][k] < Len(fetch.rows)
        /\ fetch.rows[fetch.seen[u][0][k] + 1] = "skip"
====
